---------------------------- MODULE Spec2Model ----------------------------
(***************************************************************************)
(* Model of the analytics algorithms of backend/custom_algorithms.py:      *)
(* CustomSort (quicksort ranking of routes), OutlierDetector (quartiles    *)
(* and the IQR rule), TripAggregator (24 hour buckets) and SpeedAnalyzer.  *)
(* Also get_custom_insights of backend/app.py and the connection handling *)
(* of DatabaseHandler.execute_query of backend/database_operations.py.     *)
(*                                                                         *)
(* Python objects are modelled with a heap.  A dict is a TLA+ function     *)
(* whose DOMAIN is the set of keys the dict holds, so a missing key is a   *)
(* name outside the DOMAIN.  A field value is None (the empty tuple) or a  *)
(* number n, written <<n>>.  `recs` is the heap of dicts and `lists` the   *)
(* heap of Python lists; an object's identity is its index in its heap.    *)
(* A list of dicts is a sequence of indices into `recs`; a list of numbers *)
(* is a sequence of integers.  List 1 is always the caller's argument.     *)
(* Python indices are 0-based, the sequences here 1-based: every index of  *)
(* the source is shifted by one.                                           *)
(***************************************************************************)
EXTENDS Integers, Sequences, FiniteSets, TLC

VARIABLES
    recs,   \* heap of dicts (route records, trip records, hour entries)
    lists,  \* heap of lists; lists[1] is the list the caller passes
    ret,    \* what the call gave: a returned value or a raised exception
    pre,    \* the heap as it was when the call was made
    pc,     \* "ready" before the call, "done" after it
    attrs,  \* the attributes of the four objects whose methods are called
    calls,  \* the calls of a session so far: function, input, output
    stack   \* the frames of the running call when it is followed step by
            \* step: the local variables of each activation, innermost last

vars == <<recs, lists, ret, pre, pc, attrs, calls, stack>>

\* ------------------------------------------------------------- bounds
MaxRoutes == 3
MaxCount == 2
MaxSample == 4
MaxValue == 3
MaxTrips == 6
MaxFare == 1
MaxAggTrips == 2

\* ------------------------------------------------------ Python values
None == <<>>
Num(n) == <<n>>
Val(v) == v[1]
IsNone(v) == v = None

\* The list object the caller passes to the function under analysis.
Arg == 1

NoReturn == [kind |-> "none"]
ReturnList(id) == [kind |-> "list", id |-> id]
Raise(e) == [kind |-> "raise", exc |-> e]
ReturnTuple(t) == [kind |-> "tuple", val |-> t]

\* None of the four classes has an __init__ or assigns to self: an object
\* has no attribute.
NoAttributes ==
    [c \in {"CustomSort", "OutlierDetector", "TripAggregator", "SpeedAnalyzer"}
        |-> <<>>]

\* New objects, no call made yet and none running.
FreshObjects == attrs = NoAttributes /\ calls = <<>> /\ stack = <<>>

\* Numbers are kept in fixed point: the integer k stands for k / Unit, so
\* the halves taken by calculate_median and the 1.5 * iqr of the outlier
\* bounds are exact on whole-number inputs, as they are in floating point.
Unit == 2 * 2
Fix(n) == n * Unit

Heap(R, L, r) == [recs |-> R, lists |-> L, ret |-> r]

Range(s) == {s[i] : i \in DOMAIN s}

Swap(arr, a, b) == [arr EXCEPT ![a] = arr[b], ![b] = arr[a]]

\* ---------------------------------------------------------- CustomSort

\* The comparison turned around: an ascending sort.
PivotTestAscending(x, pivot) == x <= pivot

\* The comparison without the equality: a key equal to the pivot goes to
\* the right of it.
PivotTestStrict(x, pivot) == x > pivot

\* The comparison of partition, arr[j][key] >= pivot.
PivotTest(x, pivot) == x >= pivot

\* The scan of partition, for j in range(low, high): st is
\* [arr, i, exc]; a missing key raises KeyError at arr[j][key], a None
\* operand raises TypeError at >=.
RECURSIVE partition_scan(_, _, _, _, _, _)
partition_scan(R, st, j, high, key, pivot) ==
    IF j >= high THEN st
    ELSE LET d == R[st.arr[j]] IN
         IF key \notin DOMAIN d THEN [st EXCEPT !.exc = "KeyError"]
         ELSE IF IsNone(d[key]) \/ IsNone(pivot)
              THEN [st EXCEPT !.exc = "TypeError"]
         ELSE IF PivotTest(Val(d[key]), Val(pivot))
              THEN partition_scan(R, [st EXCEPT !.i = st.i + 1,
                                        !.arr = Swap(st.arr, st.i + 1, j)],
                                  j + 1, high, key, pivot)
              ELSE partition_scan(R, st, j + 1, high, key, pivot)

\* The pivot taken in the middle of the range.
PivotPositionMiddle(low, high) == (low + high) \div 2

\* pivot = arr[high][key]: the last element of the range.
PivotPosition(low, high) == high

\* partition(arr, low, high, key): [arr, p, exc]; p is the returned index.
partition(R, arr, low, high, key) ==
    IF key \notin DOMAIN R[arr[PivotPosition(low, high)]]
    THEN [arr |-> arr, p |-> 0, exc |-> "KeyError"]
    ELSE LET pivot == R[arr[PivotPosition(low, high)]][key]
             st == partition_scan(R, [arr |-> arr, i |-> low - 1, exc |-> "none"],
                                  low, high, key, pivot)
         IN  IF st.exc # "none"
             THEN [arr |-> st.arr, p |-> 0, exc |-> st.exc]
             ELSE [arr |-> Swap(st.arr, st.i + 1, high), p |-> st.i + 1,
                   exc |-> "none"]

\* quicksort(arr, low, high, key): [arr, exc, depth]; depth is the number
\* of nested quicksort frames the call used (itself included).
RECURSIVE quicksort(_, _, _, _, _)
quicksort(R, arr, low, high, key) ==
    IF ~(low < high) THEN [arr |-> arr, exc |-> "none", depth |-> 1]
    ELSE LET pt == partition(R, arr, low, high, key) IN
         IF pt.exc # "none" THEN [arr |-> pt.arr, exc |-> pt.exc, depth |-> 1]
         ELSE LET left == quicksort(R, pt.arr, low, pt.p - 1, key) IN
              IF left.exc # "none"
              THEN [left EXCEPT !.depth = left.depth + 1]
              ELSE LET right == quicksort(R, left.arr, pt.p + 1, high, key)
                       d == IF left.depth > right.depth THEN left.depth
                                                        ELSE right.depth
                   IN  [right EXCEPT !.depth = d + 1]

\* The early return of sort_by_trip_count: `not routes or len(routes) <= 1`.
SortEdgeCase(routes) == Len(routes) <= 1

\* routes_copy = [route.copy() for route in routes]: one new dict per
\* route, then a new list holding them.
CopyRoutes(R, L, a) ==
    LET n == Len(L[a])
        R2 == R \o [i \in 1..n |-> R[L[a][i]]]
        L2 == Append(L, [i \in 1..n |-> Len(R) + i])
    IN  [recs |-> R2, lists |-> L2, id |-> Len(L2)]

\* A sort that skips the copy and sorts the caller's list itself.
SortInPlace(R, L, a) == [recs |-> R, lists |-> L, id |-> a]

\* The list quicksort is applied to.
SortTarget(R, L, a) == CopyRoutes(R, L, a)

\* sort_by_trip_count(routes) on the heap (R, L), routes being list a.
sort_by_trip_count(R, L, a) ==
    IF SortEdgeCase(L[a]) THEN Heap(R, L, ReturnList(a))
    ELSE LET c == SortTarget(R, L, a)
             q == quicksort(c.recs, c.lists[c.id], 1, Len(c.lists[c.id]),
                            "trip_count")
             L3 == [c.lists EXCEPT ![c.id] = q.arr]
         IN  Heap(c.recs, L3,
                  IF q.exc # "none" THEN Raise(q.exc) ELSE ReturnList(c.id))

\* ------------------------------------------------- specification: sort

\* A route record: `route` names it; trip_count is a count (c >= 0), None
\* (c = -1), or missing from the dict (c = -2).
RouteDict(i, c) ==
    IF c = -2 THEN [route |-> Num(i)]
    ELSE [route |-> Num(i), trip_count |-> IF c = -1 THEN None ELSE Num(c)]

RouteHeaps(n) ==
    {[i \in 1..n |-> RouteDict(i, c[i])] : c \in [1..n -> -2..MaxCount]}

InitSort ==
    /\ \E n \in 0..MaxRoutes : \E R \in RouteHeaps(n) :
          /\ recs = R
          /\ lists = <<[i \in 1..n |-> i]>>
    /\ ret = NoReturn
    /\ pre = [recs |-> recs, lists |-> lists]
    /\ pc = "ready"
    /\ FreshObjects

Apply(h) ==
    /\ recs' = h.recs
    /\ lists' = h.lists
    /\ ret' = h.ret
    /\ pre' = [recs |-> recs, lists |-> lists]
    /\ pc' = "done"
    /\ UNCHANGED <<attrs, calls, stack>>

CallSort ==
    /\ pc = "ready"
    /\ Apply(sort_by_trip_count(recs, lists, Arg))

NextSort == CallSort

SpecSort == InitSort /\ [][NextSort]_vars

\* ------------------------------------------------------- claims: sort

\* The dicts of the caller's list when the call was made, in list order.
ArgDicts == [i \in DOMAIN pre.lists[Arg] |-> pre.recs[pre.lists[Arg][i]]]

\* The dicts of the returned list, in list order.
RetDicts == [i \in DOMAIN lists[ret.id] |-> recs[lists[ret.id][i]]]

HasCount(d) == "trip_count" \in DOMAIN d /\ ~IsNone(d.trip_count)

Times(s, v) == Cardinality({i \in DOMAIN s : s[i] = v})

SameMultiset(s, t) ==
    /\ Len(s) = Len(t)
    /\ \A v \in Range(s) \cup Range(t) : Times(s, v) = Times(t, v)

\* trip_count with a missing key read as 0.
CountOrZero(d) == IF "trip_count" \in DOMAIN d THEN Val(d.trip_count) ELSE 0

Descending(s) ==
    \A i \in 1..(Len(s) - 1) : CountOrZero(s[i]) >= CountOrZero(s[i + 1])

\* C1: sort_by_trip_count on route records (each carrying a trip_count)
\* returns a list with the same multiset of records as the input in which
\* every adjacent pair is in descending trip_count order.
C1_SortCorrect ==
    (pc = "done" /\ \A i \in DOMAIN ArgDicts : HasCount(ArgDicts[i]))
        => /\ ret.kind = "list"
           /\ SameMultiset(ArgDicts, RetDicts)
           /\ Descending(RetDicts)

\* Three routes out of order were sorted; the result holds a tie and a
\* strict descent.
C1_Witness ==
    /\ pc = "done"
    /\ Len(ArgDicts) = 3
    /\ \A i \in DOMAIN ArgDicts : HasCount(ArgDicts[i])
    /\ ~Descending(ArgDicts)
    /\ ret.kind = "list"
    /\ CountOrZero(RetDicts[1]) > CountOrZero(RetDicts[2])
    /\ CountOrZero(RetDicts[2]) = CountOrZero(RetDicts[3])

\* C2: after the call the caller's list holds the same records in the
\* same order, and every record of the caller has the fields and values
\* it had, whether the call returned or raised.
C2_InputUnchanged ==
    pc = "done"
        => /\ lists[Arg] = pre.lists[Arg]
           /\ \A i \in DOMAIN pre.recs : recs[i] = pre.recs[i]

\* A call whose partition swapped: the returned copy is in another order
\* than the caller's list.
C2_Witness ==
    /\ pc = "done"
    /\ ret.kind = "list"
    /\ ret.id # Arg
    /\ RetDicts # ArgDicts
    /\ lists[Arg] = pre.lists[Arg]

\* C3: sort_by_trip_count returns a new list, never the caller's own list
\* object, for every input (the empty and the one-element list included).
C3_ReturnsNewList ==
    (pc = "done" /\ ret.kind = "list") => ret.id # Arg

\* C4: a list in which some records have no trip_count key (the others
\* carrying a number) is sorted without an exception, the missing key
\* ordered as 0.
C4_MissingKeyAsZero ==
    (/\ pc = "done"
     /\ \A i \in DOMAIN ArgDicts :
            "trip_count" \in DOMAIN ArgDicts[i] => HasCount(ArgDicts[i])
     /\ \E i \in DOMAIN ArgDicts : "trip_count" \notin DOMAIN ArgDicts[i])
        => /\ ret.kind = "list"
           /\ SameMultiset(ArgDicts, RetDicts)
           /\ Descending(RetDicts)

\* ----------------------------------------------------- OutlierDetector

\* calculate_median(sorted_arr): [val, exc].  The sum of the two middle
\* values raises TypeError when one of them is None.
calculate_median(sorted_arr) ==
    LET n == Len(sorted_arr)
        mid == n \div 2
    IN  IF n = 0 THEN [val |-> Num(0), exc |-> "none"]
        ELSE IF n % 2 = 0
        THEN IF IsNone(sorted_arr[mid]) \/ IsNone(sorted_arr[mid + 1])
             THEN [val |-> None, exc |-> "TypeError"]
             ELSE [val |-> Num((Val(sorted_arr[mid]) + Val(sorted_arr[mid + 1]))
                                  \div 2),
                   exc |-> "none"]
        ELSE [val |-> sorted_arr[mid + 1], exc |-> "none"]

\* The comparison turned around: a descending sort.
OutOfOrderDescending(x, y) == x < y

\* The comparison of bubble_sort, sorted_arr[j] > sorted_arr[j + 1].
OutOfOrder(x, y) == x > y

\* The inner loop of bubble_sort, for j in range(0, n - i - 1), from j on:
\* st is [arr, exc]; comparing None raises TypeError.
RECURSIVE bubble_inner(_, _, _)
bubble_inner(st, j, last) ==
    IF j > last THEN st
    ELSE IF IsNone(st.arr[j]) \/ IsNone(st.arr[j + 1])
         THEN [st EXCEPT !.exc = "TypeError"]
    ELSE IF OutOfOrder(Val(st.arr[j]), Val(st.arr[j + 1]))
         THEN bubble_inner([st EXCEPT !.arr = Swap(st.arr, j, j + 1)],
                           j + 1, last)
         ELSE bubble_inner(st, j + 1, last)

\* The outer loop of bubble_sort, for i in range(n), from i on.
RECURSIVE bubble_outer(_, _, _)
bubble_outer(st, i, n) ==
    IF i >= n \/ st.exc # "none" THEN st
    ELSE bubble_outer(bubble_inner(st, 1, n - i - 1), i + 1, n)

\* bubble_sort(arr): [arr, exc], arr being the new list sorted_arr.
bubble_sort(arr) == bubble_outer([arr |-> arr, exc |-> "none"], 0, Len(arr))

\* lower_half = sorted_vals[:mid]
lower_half(sorted_vals) == SubSeq(sorted_vals, 1, Len(sorted_vals) \div 2)

\* The upper half taken as sorted_vals[mid:] whatever the parity of n: the
\* median of an odd-length sample stays in it.
upper_half_with_median(sorted_vals) ==
    SubSeq(sorted_vals, Len(sorted_vals) \div 2 + 1, Len(sorted_vals))

\* upper_half = sorted_vals[mid + 1:] if n % 2 != 0 else sorted_vals[mid:]
upper_half(sorted_vals) ==
    LET n == Len(sorted_vals)
        mid == n \div 2
    IN  IF n % 2 # 0 THEN SubSeq(sorted_vals, mid + 2, n)
                     ELSE SubSeq(sorted_vals, mid + 1, n)

\* calculate_quartiles(values): [q, exc, sorted]; q is (q1, q2, q3) and
\* sorted the list bubble_sort made (the empty list when it was not called).
calculate_quartiles(values) ==
    IF values = <<>>
    THEN [q |-> <<Num(0), Num(0), Num(0)>>, exc |-> "none", sorted |-> <<>>]
    ELSE LET bs == bubble_sort(values)
             sorted_vals == bs.arr
             n == Len(sorted_vals)
             q2 == calculate_median(sorted_vals)
             lo == lower_half(sorted_vals)
             up == upper_half(sorted_vals)
             q1 == IF lo # <<>> THEN calculate_median(lo)
                   ELSE [val |-> sorted_vals[1], exc |-> "none"]
             q3 == IF up # <<>> THEN calculate_median(up)
                   ELSE [val |-> sorted_vals[n], exc |-> "none"]
             exc == IF bs.exc # "none" THEN bs.exc
                    ELSE IF q2.exc # "none" THEN q2.exc
                    ELSE IF q1.exc # "none" THEN q1.exc
                    ELSE q3.exc
         IN  [q |-> <<q1.val, q2.val, q3.val>>, exc |-> exc,
              sorted |-> sorted_vals]

\* calculate_quartiles on the heap: values is list a; the list bubble_sort
\* makes is a new list of the heap.
quartiles_call(R, L, a) ==
    LET c == calculate_quartiles(L[a])
        L2 == IF L[a] = <<>> THEN L ELSE Append(L, c.sorted)
    IN  Heap(R, L2, IF c.exc # "none" THEN Raise(c.exc) ELSE ReturnTuple(c.q))

\* ------------------------------------------- specification: quartiles

\* The sample of the docstring of calculate_quartiles.
ExampleSample == <<1, 3, 5, 7, 9, 11, 13, 15>>

SampleValues == {None} \cup {Num(Fix(v)) : v \in 0..MaxValue}

InitQuart ==
    /\ recs = <<>>
    /\ \/ \E n \in 0..MaxSample : \E s \in [1..n -> SampleValues] :
             lists = <<s>>
       \/ lists = <<[i \in DOMAIN ExampleSample |-> Num(Fix(ExampleSample[i]))]>>
    /\ ret = NoReturn
    /\ pre = [recs |-> recs, lists |-> lists]
    /\ pc = "ready"
    /\ FreshObjects

CallQuartiles ==
    /\ pc = "ready"
    /\ Apply(quartiles_call(recs, lists, Arg))

NextQuart == CallQuartiles

SpecQuart == InitQuart /\ [][NextQuart]_vars

\* ------------------------------------------------- claims: quartiles

\* The sample the call was made with.
Sample == pre.lists[Arg]

Numeric(s) == \A i \in DOMAIN s : ~IsNone(s[i])

\* The reference rule, stated without the code's loops.  Ascending order
\* by rank: position k holds the value with fewer than k values below it
\* and at least k values not above it.
RefSorted(s) ==
    [k \in DOMAIN s |->
        CHOOSE v \in Range(s) :
            /\ Cardinality({i \in DOMAIN s : Val(s[i]) < Val(v)}) < k
            /\ Cardinality({i \in DOMAIN s : Val(s[i]) <= Val(v)}) >= k]

RefMedian(t) ==
    LET n == Len(t) IN
    IF n = 0 THEN 0
    ELSE IF n % 2 = 1 THEN Val(t[(n + 1) \div 2])
    ELSE (Val(t[n \div 2]) + Val(t[n \div 2 + 1])) \div 2

\* Lower half: the first n div 2 values.  Upper half: the values after
\* index n div 2 (n odd) or from index n div 2 (n even), 0-based.
RefLower(t) == [i \in 1..(Len(t) \div 2) |-> t[i]]
RefUpper(t) ==
    LET n == Len(t)
        first == IF n % 2 = 1 THEN n \div 2 + 2 ELSE n \div 2 + 1
    IN  [i \in 1..(n - first + 1) |-> t[first + i - 1]]

RefQuartiles(s) ==
    IF s = <<>> THEN <<0, 0, 0>>
    ELSE LET t == RefSorted(s) IN
         <<IF RefLower(t) = <<>> THEN Val(t[1]) ELSE RefMedian(RefLower(t)),
           RefMedian(t),
           IF RefUpper(t) = <<>> THEN Val(t[Len(t)]) ELSE RefMedian(RefUpper(t))>>

\* The returned triple as plain numbers.
Quartiles == [k \in 1..3 |-> Val(ret.val[k])]

\* C5: for every non-empty sample of numbers calculate_quartiles returns
\* (Q1, Q2, Q3) with Q1 <= Q2 <= Q3.
C5_QuartileOrdering ==
    (pc = "done" /\ Sample # <<>> /\ Numeric(Sample))
        => /\ ret.kind = "tuple"
           /\ Quartiles[1] <= Quartiles[2]
           /\ Quartiles[2] <= Quartiles[3]

\* An unsorted sample with duplicates whose three quartiles differ.
C5_Witness ==
    /\ pc = "done"
    /\ Len(Sample) = 4
    /\ Numeric(Sample)
    /\ Val(Sample[1]) > Val(Sample[2])
    /\ \E i, j \in DOMAIN Sample : i # j /\ Sample[i] = Sample[j]
    /\ ret.kind = "tuple"
    /\ Quartiles[1] < Quartiles[2]
    /\ Quartiles[2] < Quartiles[3]

\* C6: calculate_quartiles equals the reference rule on every sample of
\* numbers (the empty sample gives (0,0,0)), and the sample
\* [1,3,5,7,9,11,13,15] gives Q1 = 4, Q2 = 8, Q3 = 12.
C6_QuartilesAreReference ==
    (pc = "done" /\ Numeric(Sample))
        => /\ ret.kind = "tuple"
           /\ Quartiles = RefQuartiles(Sample)
           /\ Sample = [i \in DOMAIN ExampleSample |-> Num(Fix(ExampleSample[i]))]
                => Quartiles = <<Fix(4), Fix(8), Fix(12)>>

\* The example sample was given and the call returned (4, 8, 12).
C6_Witness ==
    /\ pc = "done"
    /\ Sample = [i \in DOMAIN ExampleSample |-> Num(Fix(ExampleSample[i]))]
    /\ ret.kind = "tuple"
    /\ Quartiles = <<Fix(4), Fix(8), Fix(12)>>

SmallSample == Len(Sample) < 4 /\ Numeric(Sample)

SampleMin == CHOOSE v \in Range(Sample) : \A w \in Range(Sample) : Val(v) <= Val(w)
SampleMax == CHOOSE v \in Range(Sample) : \A w \in Range(Sample) : Val(v) >= Val(w)

\* C7 as stated: a sample of fewer than 4 values gives (0,0,0) and does
\* not raise.
C7_SmallSampleZeroed ==
    (pc = "done" /\ SmallSample)
        => ret.kind = "tuple" /\ Quartiles = <<0, 0, 0>>

\* C7 amended: a sample of fewer than 4 values does not raise; the empty
\* sample gives (0,0,0), one value a gives (a,a,a), two values give
\* (min, mean, max) and three values give (min, middle, max).
C7_SmallSampleRule ==
    (pc = "done" /\ SmallSample)
        => /\ ret.kind = "tuple"
           /\ Len(Sample) = 0 => Quartiles = <<0, 0, 0>>
           /\ Len(Sample) = 1 =>
                Quartiles = <<Val(Sample[1]), Val(Sample[1]), Val(Sample[1])>>
           /\ Len(Sample) = 2 =>
                Quartiles = <<Val(SampleMin),
                              (Val(Sample[1]) + Val(Sample[2])) \div 2,
                              Val(SampleMax)>>
           /\ Len(Sample) = 3 =>
                Quartiles = <<Val(SampleMin),
                              Val(Sample[1]) + Val(Sample[2]) + Val(Sample[3])
                                 - Val(SampleMin) - Val(SampleMax),
                              Val(SampleMax)>>

\* Three values out of order gave three different, non-zero quartiles.
C7_Witness ==
    /\ pc = "done"
    /\ Len(Sample) = 3
    /\ Numeric(Sample)
    /\ Val(Sample[1]) > Val(Sample[2])
    /\ Val(Sample[3]) > Val(Sample[1])
    /\ ret.kind = "tuple"
    /\ Quartiles = <<Val(Sample[2]), Val(Sample[1]), Val(Sample[3])>>
    /\ Quartiles[1] > 0

\* -------------------------------------------------- IQR outlier rule

\* 'fare_amount' in trip and trip['fare_amount'] is not None
HasFare(d) == "fare_amount" \in DOMAIN d /\ ~IsNone(d.fare_amount)

\* float(trip['fare_amount']): exact on the fixed-point fares of the model.
ToFloat(v) == Num(Val(v))

\* A fare list that reads a missing or None fare as 0.0 instead of
\* skipping the trip.
fare_amounts_none_as_zero(R, trips) ==
    [i \in DOMAIN trips |->
        IF HasFare(R[trips[i]]) THEN ToFloat(R[trips[i]].fare_amount) ELSE Num(0)]

\* Step 1 of detect_fare_outliers: the list fare_amounts.
fare_amounts(R, trips) ==
    LET with == SelectSeq(trips, LAMBDA id : HasFare(R[id]))
    IN  [i \in DOMAIN with |-> ToFloat(R[with[i]].fare_amount)]

\* The early return `if len(fare_amounts) < 4`.
TooFewFares(fares) == Len(fares) < 4

\* 1.5 * iqr
OneAndHalf(x) == (3 * x) \div 2

\* Bounds with the signs exchanged: 1.5 * iqr inside the quartiles.
fare_bounds_inward(q) ==
    LET q1 == Val(q[1])
        q3 == Val(q[3])
        iqr == q3 - q1
    IN  <<q1 + OneAndHalf(iqr), q3 - OneAndHalf(iqr)>>

\* Steps 3 and 4: (lower_bound, upper_bound) from (q1, q2, q3).
fare_bounds(q) ==
    LET q1 == Val(q[1])
        q3 == Val(q[3])
        iqr == q3 - q1
    IN  <<q1 - OneAndHalf(iqr), q3 + OneAndHalf(iqr)>>

\* The test with the bounds included.
IsOutlierInclusive(fare, lower_bound, upper_bound) ==
    fare <= lower_bound \/ fare >= upper_bound

\* fare < lower_bound or fare > upper_bound
IsOutlier(fare, lower_bound, upper_bound) ==
    fare < lower_bound \/ fare > upper_bound

\* detect_fare_outliers(trips) on the heap (R, L), trips being list a.
\* The lists it makes (fare_amounts, sorted_vals, the returned list) are
\* new lists of the heap; the returned list holds the caller's own dicts.
detect_fare_outliers(R, L, a) ==
    LET trips == L[a] IN
    IF trips = <<>>
    THEN Heap(R, Append(L, <<>>), ReturnList(Len(L) + 1))
    ELSE LET fares == fare_amounts(R, trips)
             L2 == Append(L, fares)
         IN  IF TooFewFares(fares)
             THEN Heap(R, Append(L2, <<>>), ReturnList(Len(L2) + 1))
             ELSE LET c == calculate_quartiles(fares)
                      b == fare_bounds(c.q)
                      outliers ==
                          SelectSeq(trips,
                              LAMBDA id :
                                  /\ HasFare(R[id])
                                  /\ IsOutlier(Val(ToFloat(R[id].fare_amount)),
                                               b[1], b[2]))
                      L3 == Append(Append(L2, c.sorted), outliers)
                  IN  Heap(R, L3, ReturnList(Len(L3)))

\* -------------------------------------------- specification: outliers

\* A trip record: `trip` names it; fare_amount is a fare (f >= 0), None
\* (f = -1), or missing from the dict (f = -2).
TripDict(i, f) ==
    IF f = -2 THEN [trip |-> Num(i)]
    ELSE [trip |-> Num(i), fare_amount |-> IF f = -1 THEN None ELSE Num(Fix(f))]

TripHeaps(n) ==
    {[i \in 1..n |-> TripDict(i, f[i])] : f \in [1..n -> -2..MaxFare]}

\* The fares of the threshold example: one outlier, 100.
ExampleFares == <<10, 12, 11, 13, 12, 11, 100>>

ExampleTrips ==
    [i \in DOMAIN ExampleFares |->
        [trip |-> Num(i), fare_amount |-> Num(Fix(ExampleFares[i]))]]

\* Ten fares with two equal outliers, among trips with a None fare and
\* with no fare.
MixedTrips ==
    [i \in 1..12 |->
        IF i = 2 THEN [trip |-> Num(i), fare_amount |-> None]
        ELSE IF i = 7 THEN [trip |-> Num(i)]
        ELSE [trip |-> Num(i),
              fare_amount |-> Num(Fix(IF i \in {4, 9} THEN 5 ELSE 1))]]

InitOutlier ==
    /\ \/ \E n \in 0..MaxTrips : recs \in TripHeaps(n)
       \/ recs = ExampleTrips
       \/ recs = MixedTrips
    /\ lists = <<[i \in DOMAIN recs |-> i]>>
    /\ ret = NoReturn
    /\ pre = [recs |-> recs, lists |-> lists]
    /\ pc = "ready"
    /\ FreshObjects

CallOutliers ==
    /\ pc = "ready"
    /\ Apply(detect_fare_outliers(recs, lists, Arg))

NextOutlier == CallOutliers

SpecOutlier == InitOutlier /\ [][NextOutlier]_vars

\* -------------------------------------------------- claims: outliers

\* The caller's trips at call time (indices into pre.recs, in list order).
Trips == pre.lists[Arg]

\* The non-null fares of the caller's trips, in list order.
Fares ==
    LET with == SelectSeq(Trips, LAMBDA id : HasFare(pre.recs[id]))
    IN  [i \in DOMAIN with |-> pre.recs[with[i]].fare_amount]

\* The Tukey rule on the reference quartiles, in doubled units so that no
\* division is needed: fare < Q1 - 1.5 * IQR iff 2 * fare < 5 * Q1 - 3 * Q3,
\* and fare > Q3 + 1.5 * IQR iff 2 * fare > 5 * Q3 - 3 * Q1.
RefIsOutlier(fare, q) ==
    \/ 2 * fare < 5 * q[1] - 3 * q[3]
    \/ 2 * fare > 5 * q[3] - 3 * q[1]

RefOutliers ==
    SelectSeq(Trips,
        LAMBDA id : /\ "fare_amount" \in DOMAIN pre.recs[id]
                    /\ pre.recs[id].fare_amount # None
                    /\ RefIsOutlier(Val(pre.recs[id].fare_amount),
                                    RefQuartiles(Fares)))

\* C8: with at least 4 non-null fares detect_fare_outliers returns exactly
\* the records whose non-null fare lies strictly outside
\* [Q1 - 1.5 * IQR, Q3 + 1.5 * IQR], in their original order, duplicates
\* kept; fares [10,12,11,13,12,11,100] give bounds [8,16] and the one
\* outlier 100.
C8_OutliersAreTukey ==
    (pc = "done" /\ Len(Fares) >= 4)
        => /\ ret.kind = "list"
           /\ lists[ret.id] = RefOutliers
           /\ pre.recs = ExampleTrips
                => /\ fare_bounds(calculate_quartiles(Fares).q)
                        = <<Fix(8), Fix(16)>>
                   /\ lists[ret.id] = <<7>>

\* Twelve trips, two of them without a usable fare: the two trips with the
\* fare 5 are returned in list order, the trips whose fare equals the
\* bounds are not.
C8_Witness ==
    /\ pc = "done"
    /\ pre.recs = MixedTrips
    /\ fare_bounds(calculate_quartiles(Fares).q) = <<Fix(1), Fix(1)>>
    /\ ret.kind = "list"
    /\ lists[ret.id] = <<4, 9>>

\* C9: with fewer than 4 non-null fares detect_fare_outliers returns the
\* empty list, whatever the number of records and the fare values.
C9_TooFewFaresEmpty ==
    (pc = "done" /\ Len(Fares) < 4)
        => ret.kind = "list" /\ lists[ret.id] = <<>>

\* Six trips, three of them with a fare and the fares not all equal, gave
\* the empty list.
C9_Witness ==
    /\ pc = "done"
    /\ Len(Trips) = 6
    /\ Len(Fares) = 3
    /\ Cardinality(Range(Fares)) = 2
    /\ ret.kind = "list"
    /\ lists[ret.id] = <<>>

\* ------------------------------------------------------ TripAggregator

\* range(24): the hours of the buckets.
HoursPerDay == 24

\* Phase 1: the bucket every hour starts with.
EmptyBucket ==
    [count |-> 0, total_fare |-> 0, total_distance |-> 0,
     total_duration |-> 0, total_speed |-> 0, total_tip_pct |-> 0]

\* int(trip['pickup_hour']) on a fixed-point number: the fraction is cut
\* off, towards zero.
ToInt(v) ==
    IF Val(v) >= 0 THEN Val(v) \div Unit ELSE -((-Val(v)) \div Unit)

\* The accumulation written with = for +=: the total is the last value.
AccumulateOverwrite(bucket, d, key, total) ==
    IF key \in DOMAIN d /\ ~IsNone(d[key])
    THEN [bucket EXCEPT ![total] = Val(ToFloat(d[key]))]
    ELSE bucket

\* One `if key in trip and trip[key] is not None: total += float(trip[key])`.
Accumulate(bucket, d, key, total) ==
    IF key \in DOMAIN d /\ ~IsNone(d[key])
    THEN [bucket EXCEPT ![total] = @ + Val(ToFloat(d[key]))]
    ELSE bucket

\* A loop body that skips the whole trip when it carries no fare.
AddTripRequireFare(bucket, d) ==
    IF "fare_amount" \notin DOMAIN d \/ IsNone(d.fare_amount) THEN bucket
    ELSE LET b0 == [bucket EXCEPT !.count = @ + 1]
             b1 == Accumulate(b0, d, "fare_amount", "total_fare")
             b2 == Accumulate(b1, d, "trip_distance", "total_distance")
             b3 == Accumulate(b2, d, "duration_mins", "total_duration")
             b4 == Accumulate(b3, d, "avg_speed_mph", "total_speed")
         IN  Accumulate(b4, d, "tip_percentage", "total_tip_pct")

\* The body of the phase 2 loop for one trip d with a valid hour.
AddTrip(bucket, d) ==
    LET b0 == [bucket EXCEPT !.count = @ + 1]
        b1 == Accumulate(b0, d, "fare_amount", "total_fare")
        b2 == Accumulate(b1, d, "trip_distance", "total_distance")
        b3 == Accumulate(b2, d, "duration_mins", "total_duration")
        b4 == Accumulate(b3, d, "avg_speed_mph", "total_speed")
    IN  Accumulate(b4, d, "tip_percentage", "total_tip_pct")

\* The range test with its lower end off by one: hour 0 is skipped too.
HourOutOfRangeOffByOne(hour) == hour <= 0 \/ hour > 23

\* if hour < 0 or hour > 23: continue
HourOutOfRange(hour) == hour < 0 \/ hour > 23

\* Phase 2, for trip in trips, from the i-th trip on; hourly_data maps the
\* hours 0..23 to their buckets.
RECURSIVE aggregate_loop(_, _, _, _)
aggregate_loop(R, trips, i, hourly_data) ==
    IF i > Len(trips) THEN hourly_data
    ELSE LET d == R[trips[i]] IN
         IF "pickup_hour" \notin DOMAIN d \/ IsNone(d.pickup_hour)
         THEN aggregate_loop(R, trips, i + 1, hourly_data)
         ELSE LET hour == ToInt(d.pickup_hour) IN
              IF HourOutOfRange(hour)
              THEN aggregate_loop(R, trips, i + 1, hourly_data)
              ELSE aggregate_loop(R, trips, i + 1,
                       [hourly_data EXCEPT ![hour] = AddTrip(@, d)])

\* round(total / count, 2) in hundredths, total being in fixed point: the
\* quotient rounded to the nearest hundredth, a tie to the even one.
Round2(total, count) ==
    LET num == 100 * total
        den == Unit * count
        q == num \div den
        r == num % den
    IN  IF 2 * r < den THEN q
        ELSE IF 2 * r > den THEN q + 1
        ELSE IF q % 2 = 0 THEN q ELSE q + 1

\* An entry whose averages are None, not 0, for an hour without trips.
hour_entry_zero_as_none(hour, data) ==
    IF data.count > 0
    THEN [hour |-> Num(hour),
          trip_count |-> Num(data.count),
          avg_fare |-> Num(Round2(data.total_fare, data.count)),
          avg_distance |-> Num(Round2(data.total_distance, data.count)),
          avg_duration |-> Num(Round2(data.total_duration, data.count)),
          avg_speed |-> Num(Round2(data.total_speed, data.count)),
          avg_tip_pct |-> Num(Round2(data.total_tip_pct, data.count))]
    ELSE [hour |-> Num(hour), trip_count |-> Num(0), avg_fare |-> None,
          avg_distance |-> None, avg_duration |-> None,
          avg_speed |-> None, avg_tip_pct |-> None]

\* Phase 3: the dict appended for one hour.  hour and trip_count are
\* integers, the averages are in hundredths; an hour without trips gets
\* the literal 0 everywhere.
hour_entry(hour, data) ==
    IF data.count > 0
    THEN [hour |-> Num(hour),
          trip_count |-> Num(data.count),
          avg_fare |-> Num(Round2(data.total_fare, data.count)),
          avg_distance |-> Num(Round2(data.total_distance, data.count)),
          avg_duration |-> Num(Round2(data.total_duration, data.count)),
          avg_speed |-> Num(Round2(data.total_speed, data.count)),
          avg_tip_pct |-> Num(Round2(data.total_tip_pct, data.count))]
    ELSE [hour |-> Num(hour), trip_count |-> Num(0), avg_fare |-> Num(0),
          avg_distance |-> Num(0), avg_duration |-> Num(0),
          avg_speed |-> Num(0), avg_tip_pct |-> Num(0)]

\* A result that leaves out the hours without trips.
result_entries_nonempty_hours(hourly_data) ==
    LET hours == SelectSeq([k \in 1..HoursPerDay |-> k - 1],
                           LAMBDA h : hourly_data[h].count > 0)
    IN  [k \in DOMAIN hours |-> hour_entry(hours[k], hourly_data[hours[k]])]

\* Phase 3: result, one dict per hour in range(24).
result_entries(hourly_data) ==
    [k \in 1..HoursPerDay |-> hour_entry(k - 1, hourly_data[k - 1])]

\* aggregate_by_hour(trips) on the heap (R, L), trips being list a: the
\* dicts of the result and the result list are new objects.
aggregate_by_hour(R, L, a) ==
    LET hourly_data ==
            aggregate_loop(R, L[a], 1,
                           [h \in 0..(HoursPerDay - 1) |-> EmptyBucket])
        entries == result_entries(hourly_data)
        R2 == R \o entries
        L2 == Append(L, [k \in DOMAIN entries |-> Len(R) + k])
    IN  Heap(R2, L2, ReturnList(Len(L2)))

\* ---------------------------------------- specification: aggregation

\* pickup_hour of a trip: missing, None, or one of these hours.
HourValues == {-1, 0, 5, 23, 24}

HourDicts(i) ==
    {[trip |-> Num(i)]}
    \cup {[trip |-> Num(i), pickup_hour |-> v] :
            v \in {None} \cup {Num(Fix(h)) : h \in HourValues}}

\* What a trip carries of the five fields (whole numbers).
FieldProfiles ==
    {[fare_amount |-> Num(Fix(10)), trip_distance |-> Num(Fix(2)),
      duration_mins |-> Num(Fix(7)), avg_speed_mph |-> Num(Fix(20)),
      tip_percentage |-> Num(Fix(15))],
     [fare_amount |-> Num(Fix(20))],
     [fare_amount |-> None, trip_distance |-> Num(Fix(5)),
      duration_mins |-> None, tip_percentage |-> Num(Fix(0))],
     [trip_distance |-> Num(Fix(3)), duration_mins |-> Num(Fix(4)),
      avg_speed_mph |-> Num(Fix(11)), tip_percentage |-> None]}

AggTripDicts(i) ==
    HourDicts(i) \cup {h @@ f : h \in HourDicts(i), f \in FieldProfiles}

RECURSIVE AggHeaps(_)
AggHeaps(n) ==
    IF n = 0 THEN {<<>>}
    ELSE {Append(R, d) : R \in AggHeaps(n - 1), d \in AggTripDicts(n)}

InitAgg ==
    /\ \E n \in 0..MaxAggTrips : recs \in AggHeaps(n)
    /\ lists = <<[i \in DOMAIN recs |-> i]>>
    /\ ret = NoReturn
    /\ pre = [recs |-> recs, lists |-> lists]
    /\ pc = "ready"
    /\ FreshObjects

CallAggregate ==
    /\ pc = "ready"
    /\ Apply(aggregate_by_hour(recs, lists, Arg))

NextAgg == CallAggregate

SpecAgg == InitAgg /\ [][NextAgg]_vars

\* ----------------------------------------------- claims: aggregation

\* The dicts of the returned list of aggregate_by_hour, in list order.
HourlyResult == [k \in DOMAIN lists[ret.id] |-> recs[lists[ret.id][k]]]

\* The hour a trip of the caller counts for, or -1 when it is skipped.
ValidHour(d) ==
    IF "pickup_hour" \in DOMAIN d /\ d.pickup_hour # None
       /\ Val(d.pickup_hour) >= 0 /\ Val(d.pickup_hour) < Fix(24)
    THEN Val(d.pickup_hour) \div Unit
    ELSE -1

\* C10: for any input list aggregate_by_hour returns exactly 24 records
\* whose hour fields are 0, 1, ..., 23 in that order.
C10_TwentyFourHours ==
    pc = "done"
        => /\ ret.kind = "list"
           /\ Len(HourlyResult) = 24
           /\ \A k \in 1..24 : HourlyResult[k].hour = Num(k - 1)

\* Two trips given with the later hour first (23, then 5), and nothing
\* else: hours 5 and 23 count one trip each, hour 0 none, and the 24
\* records are there in ascending order.
C10_Witness ==
    /\ pc = "done"
    /\ Len(pre.lists[Arg]) = 2
    /\ ValidHour(pre.recs[1]) = 23
    /\ ValidHour(pre.recs[2]) = 5
    /\ ret.kind = "list"
    /\ Len(HourlyResult) = 24
    /\ HourlyResult[6].hour = Num(5) /\ HourlyResult[6].trip_count = Num(1)
    /\ HourlyResult[24].hour = Num(23) /\ HourlyResult[24].trip_count = Num(1)
    /\ HourlyResult[1].hour = Num(0) /\ HourlyResult[1].trip_count = Num(0)

\* The caller's trips at call time, as dicts in list order.
AggTrips == [i \in DOMAIN pre.lists[Arg] |-> pre.recs[pre.lists[Arg][i]]]

\* The positions of the trips that count for hour h.
TripsOfHour(h) == {i \in DOMAIN AggTrips : ValidHour(AggTrips[i]) = h}

\* The result's record for hour h.
EntryOf(h) == HourlyResult[h + 1]

AverageNames ==
    {"avg_fare", "avg_distance", "avg_duration", "avg_speed", "avg_tip_pct"}

\* C11: every hour that no input record maps to has trip_count = 0 and
\* avg_fare, avg_distance, avg_duration, avg_speed and avg_tip_pct all 0.
C11_EmptyHourZeroed ==
    pc = "done"
        => /\ ret.kind = "list"
           /\ \A h \in 0..23 :
                TripsOfHour(h) = {}
                    => /\ EntryOf(h).trip_count = Num(0)
                       /\ \A a \in AverageNames : EntryOf(h)[a] = Num(0)

\* Two trips with all five fields at hour 5 and a trip-free hour 6 next to
\* it: hour 5 has averages above 0, hour 6 has only zeros.
C11_Witness ==
    /\ pc = "done"
    /\ TripsOfHour(5) = {1, 2}
    /\ TripsOfHour(6) = {}
    /\ ret.kind = "list"
    /\ \A a \in AverageNames : Val(EntryOf(5)[a]) > 0
    /\ EntryOf(6).trip_count = Num(0)
    /\ \A a \in AverageNames : EntryOf(6)[a] = Num(0)

RECURSIVE SumCounts(_)
SumCounts(k) ==
    IF k = 0 THEN 0 ELSE Val(HourlyResult[k].trip_count) + SumCounts(k - 1)

\* C12: a record whose pickup_hour is missing, None, below 0 or above 23 is
\* skipped without an error and changes no bucket, a record with
\* pickup_hour h in 0..23 adds exactly 1 to the count of hour h alone; so
\* the trip_counts add up to the number of records with an hour in 0..23.
C12_CountsValidHours ==
    pc = "done"
        => /\ ret.kind = "list"
           /\ \A h \in 0..23 :
                EntryOf(h).trip_count = Num(Cardinality(TripsOfHour(h)))
           /\ SumCounts(24)
                = Cardinality({i \in DOMAIN AggTrips :
                                 /\ "pickup_hour" \in DOMAIN AggTrips[i]
                                 /\ AggTrips[i].pickup_hour # None
                                 /\ Val(AggTrips[i].pickup_hour) \in
                                        {Fix(h) : h \in 0..23}})

\* A trip at hour 24 next to a trip at hour 0: only hour 0 counts a trip.
C12_Witness ==
    /\ pc = "done"
    /\ Len(AggTrips) = 2
    /\ "pickup_hour" \in DOMAIN AggTrips[1]
    /\ AggTrips[1].pickup_hour = Num(Fix(24))
    /\ ValidHour(AggTrips[2]) = 0
    /\ ret.kind = "list"
    /\ EntryOf(0).trip_count = Num(1)
    /\ SumCounts(24) = 1

\* The sum of the non-null values of `field` over the trips at positions I.
RECURSIVE FieldSum(_, _)
FieldSum(field, I) ==
    IF I = {} THEN 0
    ELSE LET i == CHOOSE j \in I : TRUE
             d == AggTrips[i]
             v == IF field \in DOMAIN d /\ d[field] # None
                  THEN Val(d[field]) ELSE 0
         IN  v + FieldSum(field, I \ {i})

\* avg (in hundredths) is sum / count (sum in fixed point) to the nearest
\* hundredth.
IsRounded(avg, sum, count) ==
    LET diff == 100 * sum - avg * Unit * count
    IN  2 * (IF diff < 0 THEN -diff ELSE diff) <= Unit * count

AveragedFields ==
    {<<"fare_amount", "avg_fare">>, <<"trip_distance", "avg_distance">>,
     <<"duration_mins", "avg_duration">>, <<"avg_speed_mph", "avg_speed">>,
     <<"tip_percentage", "avg_tip_pct">>}

\* Two trips at hour 5, the first with the fare 10 and the second with the
\* fare 20.
TwoFaresAtFive ==
    /\ Len(AggTrips) = 2
    /\ TripsOfHour(5) = {1, 2}
    /\ "fare_amount" \in DOMAIN AggTrips[1]
    /\ AggTrips[1].fare_amount = Num(Fix(10))
    /\ "fare_amount" \in DOMAIN AggTrips[2]
    /\ AggTrips[2].fare_amount = Num(Fix(20))

\* C13: the five fields are independently optional: every trip with a
\* valid hour counts, and each average of an hour with trips is the sum of
\* the field's non-null values in the hour divided by the hour's
\* trip_count; fares 10 and 20 at hour 5 give trip_count 2, avg_fare 15.0.
C13_AveragesOverAllTrips ==
    pc = "done"
        => /\ ret.kind = "list"
           /\ \A h \in 0..23 :
                TripsOfHour(h) # {}
                    => /\ EntryOf(h).trip_count = Num(Cardinality(TripsOfHour(h)))
                       /\ \A f \in AveragedFields :
                            IsRounded(Val(EntryOf(h)[f[2]]),
                                      FieldSum(f[1], TripsOfHour(h)),
                                      Cardinality(TripsOfHour(h)))
           /\ TwoFaresAtFive
                => /\ EntryOf(5).trip_count = Num(2)
                   /\ EntryOf(5).avg_fare = Num(1500)

\* The example, the second trip carrying nothing but its fare: the count
\* is 2, avg_fare 15.00 and avg_distance half the first trip's distance.
C13_Witness ==
    /\ pc = "done"
    /\ TwoFaresAtFive
    /\ "trip_distance" \in DOMAIN AggTrips[1]
    /\ AggTrips[1].trip_distance = Num(Fix(2))
    /\ "trip_distance" \notin DOMAIN AggTrips[2]
    /\ ret.kind = "list"
    /\ EntryOf(5).trip_count = Num(2)
    /\ EntryOf(5).avg_fare = Num(1500)
    /\ EntryOf(5).avg_distance = Num(100)

\* The orders the caller's list can be given in.
Orderings(s) ==
    {p \in [DOMAIN s -> Range(s)] : \A x \in Range(s) : \E i \in DOMAIN s : p[i] = x}

\* C14: the output does not depend on the order of the input records:
\* every permutation of the caller's list gives the same 24 records.
C14_OrderIndependent ==
    pc = "done"
        => /\ ret.kind = "list"
           /\ \A p \in Orderings(pre.lists[Arg]) :
                LET h == aggregate_by_hour(pre.recs, <<p>>, Arg)
                IN  [k \in DOMAIN h.lists[h.ret.id] |-> h.recs[h.lists[h.ret.id][k]]]
                        = HourlyResult

\* Two trips of the same hour with different fares and fields were
\* aggregated; the other order is another list.
C14_Witness ==
    /\ pc = "done"
    /\ TwoFaresAtFive
    /\ Cardinality(Orderings(pre.lists[Arg])) = 2
    /\ ret.kind = "list"
    /\ EntryOf(5).avg_fare = Num(1500)

\* ------------------------------------------------------ SpeedAnalyzer

\* Hour entries carry hour and trip_count as plain integers and avg_speed
\* in hundredths of a mile per hour, as aggregate_by_hour rounds it.
Speed(mph) == 100 * mph

\* h.get('trip_count', 0)
TripCountOf(d) == IF "trip_count" \in DOMAIN d THEN d.trip_count ELSE Num(0)

\* hour_data.get('avg_speed', 0)
SpeedOf(d) == IF "avg_speed" \in DOMAIN d THEN d.avg_speed ELSE Num(0)

\* A floor that lets an hour of exactly 10 trips through.
EnoughTripsFromTen(d) == Val(TripCountOf(d)) >= 10

\* h.get('trip_count', 0) > 10
EnoughTrips(d) == Val(TripCountOf(d)) > 10

\* Step 1, the list comprehension: the entries with enough trips, in
\* order; None > 10 is a TypeError.
valid_hours(R, hourly_data) ==
    IF \E k \in DOMAIN hourly_data : IsNone(TripCountOf(R[hourly_data[k]]))
    THEN [ids |-> <<>>, exc |-> "TypeError"]
    ELSE [ids |-> SelectSeq(hourly_data, LAMBDA id : EnoughTrips(R[id])),
          exc |-> "none"]

\* float('inf'), a value that is no number <<n>>.
Infinity == <<1, 0>>

\* Step 2, the loop from the i-th valid entry on; None < min_speed is a
\* TypeError.
RECURSIVE min_speed_loop(_, _, _, _)
min_speed_loop(R, valid, i, min_speed) ==
    IF i > Len(valid) THEN [val |-> min_speed, exc |-> "none"]
    ELSE LET speed == SpeedOf(R[valid[i]]) IN
         IF IsNone(speed) THEN [val |-> min_speed, exc |-> "TypeError"]
         ELSE IF min_speed = Infinity \/ Val(speed) < Val(min_speed)
              THEN min_speed_loop(R, valid, i + 1, speed)
              ELSE min_speed_loop(R, valid, i + 1, min_speed)

\* A threshold without the factor: the slowest speed alone.
AtMinimumOnly(speed, min_speed) == speed <= min_speed

\* threshold = min_speed * 1.1 and the test avg_speed <= threshold, as
\* exact arithmetic: speed <= 1.1 * min_speed.
WithinThreshold(speed, min_speed) == 10 * speed <= 11 * min_speed

\* Step 4, the loop from the i-th valid entry on; hour_data['hour'] of an
\* entry without the key is a KeyError.
RECURSIVE congestion_loop(_, _, _, _, _)
congestion_loop(R, valid, i, min_speed, congestion_hours) ==
    IF i > Len(valid) THEN [hours |-> congestion_hours, exc |-> "none"]
    ELSE LET d == R[valid[i]] IN
         IF WithinThreshold(Val(SpeedOf(d)), min_speed)
         THEN IF "hour" \in DOMAIN d
              THEN congestion_loop(R, valid, i + 1, min_speed,
                                   Append(congestion_hours, d.hour))
              ELSE [hours |-> congestion_hours, exc |-> "KeyError"]
         ELSE congestion_loop(R, valid, i + 1, min_speed, congestion_hours)

\* find_congestion_hours(hourly_data), L[a] being hourly_data.  The
\* returned list holds the hour values themselves.
find_congestion_hours(R, L, a) ==
    IF L[a] = <<>> THEN Heap(R, Append(L, <<>>), ReturnList(Len(L) + 1))
    ELSE LET v == valid_hours(R, L[a]) IN
         IF v.exc # "none" THEN Heap(R, L, Raise(v.exc))
         ELSE LET L1 == Append(L, v.ids) IN
              IF v.ids = <<>>
              THEN Heap(R, Append(L1, <<>>), ReturnList(Len(L1) + 1))
              ELSE LET m == min_speed_loop(R, v.ids, 1, Infinity) IN
                   IF m.exc # "none" THEN Heap(R, L1, Raise(m.exc))
                   ELSE LET c == congestion_loop(R, v.ids, 1, Val(m.val), <<>>)
                        IN  IF c.exc # "none" THEN Heap(R, L1, Raise(c.exc))
                            ELSE Heap(R, Append(L1, c.hours),
                                      ReturnList(Len(L1) + 1))

\* ------------------------------------- specification: congestion hours

MaxEntries == 2

\* The i-th entry's hour, when it has one.
HourOfEntry(i) == 7 + i

HourParts(i) == {<<>>, [hour |-> None], [hour |-> Num(HourOfEntry(i))]}

\* A negative speed, 0 and three speeds of which the second is 1.1 times
\* the first.
SpeedValues == {Speed(-10), Speed(0), Speed(10), Speed(11), Speed(12)}

SpeedParts == {<<>>, [avg_speed |-> None]} \cup {[avg_speed |-> Num(v)] : v \in SpeedValues}

CountParts ==
    {<<>>, [trip_count |-> None], [trip_count |-> Num(10)], [trip_count |-> Num(11)]}

HourEntries(i) ==
    {h @@ v @@ c : h \in HourParts(i), v \in SpeedParts, c \in CountParts}

RECURSIVE HourHeaps(_)
HourHeaps(n) ==
    IF n = 0 THEN {<<>>}
    ELSE {Append(R, d) : R \in HourHeaps(n - 1), d \in HourEntries(n)}

\* The entries of the clustering example.
ExampleHours ==
    <<[hour |-> Num(8), avg_speed |-> Num(Speed(12)), trip_count |-> Num(500)],
      [hour |-> Num(9), avg_speed |-> Num(Speed(11)), trip_count |-> Num(600)],
      [hour |-> Num(17), avg_speed |-> Num(1250), trip_count |-> Num(550)]>>

\* Three entries with enough trips and one speed, for each speed.
SameSpeedHours ==
    {[i \in 1..3 |-> [hour |-> Num(HourOfEntry(i)), avg_speed |-> Num(v),
                      trip_count |-> Num(10 + i)]] : v \in SpeedValues}

\* A day of trips: 11 at hour 5 driven at 20 mph, 11 at hour 23 at 11 mph
\* and one at hour 0 at 11 mph.
BusyDayTrips ==
    [i \in 1..23 |->
        IF i <= 11
        THEN [pickup_hour |-> Num(Fix(5)), avg_speed_mph |-> Num(Fix(20))]
        ELSE IF i <= 22
        THEN [pickup_hour |-> Num(Fix(23)), avg_speed_mph |-> Num(Fix(11))]
        ELSE [pickup_hour |-> Num(Fix(0)), avg_speed_mph |-> Num(Fix(11))]]

\* The 24 records aggregate_by_hour returns for the day.
BusyDayHours ==
    LET h == aggregate_by_hour(BusyDayTrips, <<[i \in 1..23 |-> i]>>, Arg)
    IN  [k \in DOMAIN h.lists[h.ret.id] |-> h.recs[h.lists[h.ret.id][k]]]

InitCong ==
    /\ \/ \E n \in 0..MaxEntries : recs \in HourHeaps(n)
       \/ recs = ExampleHours
       \/ recs \in SameSpeedHours
       \/ recs = BusyDayHours
    /\ lists = <<[i \in DOMAIN recs |-> i]>>
    /\ ret = NoReturn
    /\ pre = [recs |-> recs, lists |-> lists]
    /\ pc = "ready"
    /\ FreshObjects

CallCongestion ==
    /\ pc = "ready"
    /\ Apply(find_congestion_hours(recs, lists, Arg))

NextCong == CallCongestion

SpecCong == InitCong /\ [][NextCong]_vars

\* ------------------------------------------ claims: congestion hours

\* The caller's hour entries at call time, in list order.
Entries == [i \in DOMAIN pre.lists[Arg] |-> pre.recs[pre.lists[Arg][i]]]

\* The entry has an hour and a speed, and a number of trips if any.
WellFormed(d) ==
    /\ "hour" \in DOMAIN d /\ d.hour # None
    /\ "avg_speed" \in DOMAIN d /\ d.avg_speed # None
    /\ "trip_count" \in DOMAIN d => d.trip_count # None

\* The positions of the entries with more than 10 trips.
Qualifying ==
    {i \in DOMAIN Entries :
        /\ "trip_count" \in DOMAIN Entries[i]
        /\ Entries[i].trip_count # None
        /\ Val(Entries[i].trip_count) > 10}

\* 10 times the slowest speed of the qualifying entries.
TenTimesSlowest ==
    CHOOSE m \in {10 * Val(Entries[i].avg_speed) : i \in Qualifying} :
        \A i \in Qualifying : m <= 10 * Val(Entries[i].avg_speed)

\* The positions of the qualifying entries at most 1.1 times as fast as
\* the slowest one.
Congested ==
    {i \in Qualifying : 100 * Val(Entries[i].avg_speed) <= 11 * TenTimesSlowest}

RECURSIVE HoursOf(_, _)
HoursOf(I, k) ==
    IF k > Len(Entries) THEN <<>>
    ELSE IF k \in I THEN <<Entries[k].hour>> \o HoursOf(I, k + 1)
    ELSE HoursOf(I, k + 1)

\* The returned list of hours.
CongestionHours == lists[ret.id]

\* C15: the result is, in input order, the hour of exactly the entries
\* with trip_count > 10 and avg_speed <= 1.1 * m, m the least avg_speed of
\* the entries with trip_count > 10; it is empty for an empty input and
\* when no entry has trip_count > 10.  The example gives [8, 9].
C15_CongestionCluster ==
    (pc = "done" /\ \A i \in DOMAIN Entries : WellFormed(Entries[i]))
        => /\ ret.kind = "list"
           /\ ret.id # Arg
           /\ CongestionHours = HoursOf(Congested, 1)
           /\ Qualifying = {} => CongestionHours = <<>>
           /\ pre.recs = ExampleHours => CongestionHours = <<Num(8), Num(9)>>

\* The example: 12 and 11 are within 12.1, 12.5 is not.
C15_Witness ==
    /\ pc = "done"
    /\ pre.recs = ExampleHours
    /\ Qualifying = {1, 2, 3}
    /\ TenTimesSlowest = 10 * Speed(11)
    /\ ret.kind = "list"
    /\ CongestionHours = <<Num(8), Num(9)>>

\* The entry has no trip_count or one of at most 10.
BelowFloor(d) ==
    \/ "trip_count" \notin DOMAIN d
    \/ d.trip_count # None /\ Val(d.trip_count) <= 10

\* What a call gave: the values of the returned list, or the exception.
Outcome(h) ==
    IF h.ret.kind = "list" THEN [kind |-> "list", val |-> h.lists[h.ret.id]]
    ELSE h.ret

\* C16: an entry with trip_count <= 10 (10 itself, or no trip_count) has
\* no influence: the call gives what it gives without these entries, and
\* none of their hours is returned, whatever their speed; so it is on the
\* 24 records of aggregate_by_hour, whose empty hours have avg_speed 0.
C16_FloorExcludes ==
    pc = "done"
        => /\ Outcome([recs |-> recs, lists |-> lists, ret |-> ret])
                = Outcome(find_congestion_hours(pre.recs,
                      <<SelectSeq(pre.lists[Arg],
                                  LAMBDA id : ~BelowFloor(pre.recs[id]))>>, Arg))
           /\ ret.kind = "list"
                => \A i \in DOMAIN Entries :
                     (/\ BelowFloor(Entries[i])
                      /\ "hour" \in DOMAIN Entries[i]
                      /\ Entries[i].hour # None)
                         => \A k \in DOMAIN CongestionHours :
                                CongestionHours[k] # Entries[i].hour
           /\ pre.recs = BusyDayHours
                => ret.kind = "list" /\ CongestionHours = <<Num(23)>>

\* The day's records: 21 hours without trips and speed 0, hour 0 with one
\* trip at the slowest speed of the busy hours; hour 23 alone is returned.
C16_Witness ==
    /\ pc = "done"
    /\ pre.recs = BusyDayHours
    /\ Cardinality({i \in DOMAIN Entries :
            Entries[i].trip_count = Num(0) /\ Entries[i].avg_speed = Num(0)}) = 21
    /\ Entries[1].trip_count = Num(1) /\ Entries[1].avg_speed = Num(Speed(11))
    /\ Qualifying = {6, 24}
    /\ ret.kind = "list"
    /\ CongestionHours = <<Num(23)>>

\* C17: if all entries with trip_count > 10 have the same avg_speed, the
\* hour of every one of them is returned, whatever the common speed is.
C17_SameSpeedAllReturned ==
    (/\ pc = "done"
     /\ \A i \in DOMAIN Entries : WellFormed(Entries[i])
     /\ Qualifying # {}
     /\ \A i, j \in Qualifying : Entries[i].avg_speed = Entries[j].avg_speed)
        => /\ ret.kind = "list"
           /\ CongestionHours = HoursOf(Qualifying, 1)

\* C19: find_congestion_hours (as detect_fare_outliers and
\* aggregate_by_hour) never raises when hour, avg_speed or trip_count is
\* missing from an entry or None: the call returns a list.
C19_NeverRaises == pc = "done" => ret.kind = "list"

\* C20: no list and no record returned by detect_fare_outliers (or by
\* sort_by_trip_count) is an object of the caller's collection: the
\* returned list is not the caller's list and holds none of its records.
C20_ValueSemantics ==
    pc = "done"
        => /\ ret.kind = "list"
           /\ ret.id # Arg
           /\ \A k \in DOMAIN lists[ret.id] :
                lists[ret.id][k] \notin Range(pre.lists[Arg])

\* ------------------------------------- specification: a session of calls

MaxCalls == 3

\* Six records that are routes (trip_count), trips (fare_amount,
\* pickup_hour) and hour entries (hour, avg_speed, trip_count) at once.
SessionCounts == <<11, 12, 10, 11, 500, 12>>
SessionFares == <<0, 0, 0, 0, 0, 1>>
SessionPickupHours == <<5, 5, 23, 0, 24, 5>>
SessionSpeeds == <<10, 11, 12, 10, 0, 20>>

SessionRecords ==
    [i \in 1..6 |->
        [trip_count |-> Num(SessionCounts[i]),
         fare_amount |-> Num(Fix(SessionFares[i])),
         pickup_hour |-> Num(Fix(SessionPickupHours[i])),
         hour |-> Num(HourOfEntry(i)),
         avg_speed |-> Num(Speed(SessionSpeeds[i]))]]

\* A second list of the caller: the same records again, the records in
\* reverse, the first two, or none.
SessionLists == {<<1, 2, 3, 4, 5, 6>>, <<6, 5, 4, 3, 2, 1>>, <<1, 2>>, <<>>}

\* The caller's lists: 1 and 2 hold records, 3 holds the numbers of the
\* sample.
RecordLists == {1, 2}
SampleList == 3

InitSession ==
    /\ recs = SessionRecords
    /\ \E B \in SessionLists :
          lists = <<[i \in 1..6 |-> i], B,
                    [i \in 1..8 |-> Num(Fix(ExampleSample[i]))]>>
    /\ ret = NoReturn
    /\ pre = [recs |-> recs, lists |-> lists]
    /\ pc = "ready"
    /\ FreshObjects

\* The dicts of list a, in list order.
ListValue(R, L, a) == [k \in DOMAIN L[a] |-> R[L[a][k]]]

\* What a call returned, by value.
OutputValue(fn, h) ==
    IF h.ret.kind = "list"
    THEN [kind |-> "list",
          val |-> IF fn = "find_congestion_hours" THEN h.lists[h.ret.id]
                  ELSE ListValue(h.recs, h.lists, h.ret.id)]
    ELSE h.ret

\* The call fn(lists[a]) ends with the heap h: it is noted with the value
\* of its input and of its output.
Record(fn, a, h) ==
    /\ recs' = h.recs
    /\ lists' = h.lists
    /\ ret' = h.ret
    /\ pre' = [recs |-> recs, lists |-> lists]
    /\ pc' = "done"
    /\ UNCHANGED stack
    /\ calls' = Append(calls,
                  [fn |-> fn, arg |-> a,
                   input |-> IF a = SampleList THEN lists[a]
                             ELSE ListValue(recs, lists, a),
                   output |-> OutputValue(fn, h)])

SessionSort ==
    /\ Len(calls) < MaxCalls
    /\ \E a \in RecordLists :
          Record("sort_by_trip_count", a, sort_by_trip_count(recs, lists, a))
    /\ UNCHANGED attrs

SessionQuartiles ==
    /\ Len(calls) < MaxCalls
    /\ Record("calculate_quartiles", SampleList,
              quartiles_call(recs, lists, SampleList))
    /\ UNCHANGED attrs

\* A detector that collects the outliers in self.outliers, a list it
\* never empties, and returns that list.
SessionOutliersAccumulating ==
    /\ Len(calls) < MaxCalls
    /\ \E a \in RecordLists :
          LET h == detect_fare_outliers(recs, lists, a)
              kept == IF "outliers" \in DOMAIN attrs.OutlierDetector
                      THEN attrs.OutlierDetector.outliers ELSE <<>>
              all == kept \o h.lists[h.ret.id]
          IN  /\ Record("detect_fare_outliers", a,
                        [h EXCEPT !.lists[h.ret.id] = all])
              /\ attrs' = [attrs EXCEPT !.OutlierDetector = [outliers |-> all]]

SessionOutliers ==
    /\ Len(calls) < MaxCalls
    /\ \E a \in RecordLists :
          Record("detect_fare_outliers", a, detect_fare_outliers(recs, lists, a))
    /\ UNCHANGED attrs

SessionAggregate ==
    /\ Len(calls) < MaxCalls
    /\ \E a \in RecordLists :
          Record("aggregate_by_hour", a, aggregate_by_hour(recs, lists, a))
    /\ UNCHANGED attrs

SessionCongestion ==
    /\ Len(calls) < MaxCalls
    /\ \E a \in RecordLists :
          Record("find_congestion_hours", a, find_congestion_hours(recs, lists, a))
    /\ UNCHANGED attrs

NextSession ==
    \/ SessionSort
    \/ SessionQuartiles
    \/ SessionOutliers
    \/ SessionAggregate
    \/ SessionCongestion

SpecSession == InitSession /\ [][NextSession]_vars

\* C18: the five functions are deterministic and keep no state: whatever
\* calls were made in between, two calls of a function with the same
\* input return the same output, and the objects have no attribute.
C18_SameInputSameOutput ==
    /\ \A i, j \in DOMAIN calls :
          (calls[i].fn = calls[j].fn /\ calls[i].input = calls[j].input)
              => calls[i].output = calls[j].output
    /\ attrs = NoAttributes

\* detect_fare_outliers on list 1, calculate_quartiles on the same
\* detector, then detect_fare_outliers on list 2, another list of the same
\* records: both calls return the one outlier.
C18_Witness ==
    /\ Len(calls) = 3
    /\ calls[1].fn = "detect_fare_outliers" /\ calls[1].arg = 1
    /\ calls[2].fn = "calculate_quartiles"
    /\ calls[3].fn = "detect_fare_outliers" /\ calls[3].arg = 2
    /\ calls[1].input = calls[3].input
    /\ calls[1].output.kind = "list"
    /\ Len(calls[1].output.val) = 1
    /\ calls[3].output = calls[1].output

\* ------------------------------- specification: bubble_sort, by passes

\* The activation of the running call.
Top == stack[Len(stack)]

InitBubble ==
    /\ recs = <<>>
    /\ \E n \in 0..MaxSample : \E s \in [1..n -> SampleValues] : lists = <<s>>
    /\ ret = NoReturn
    /\ pre = [recs |-> recs, lists |-> lists]
    /\ pc = "ready"
    /\ FreshObjects

\* The sort without the copy: sorted_arr is the caller's own list.
BubbleAlias ==
    /\ pc = "ready"
    /\ stack' = <<[sorted_arr |-> Arg, n |-> Len(lists[Arg]), i |-> 0]>>
    /\ pre' = [recs |-> recs, lists |-> lists]
    /\ pc' = "running"
    /\ UNCHANGED <<recs, lists, ret, attrs, calls>>

\* sorted_arr = arr.copy(); n = len(sorted_arr)
BubbleCopy ==
    /\ pc = "ready"
    /\ lists' = Append(lists, lists[Arg])
    /\ stack' = <<[sorted_arr |-> Len(lists) + 1, n |-> Len(lists[Arg]), i |-> 0]>>
    /\ pre' = [recs |-> recs, lists |-> lists]
    /\ pc' = "running"
    /\ UNCHANGED <<recs, ret, attrs, calls>>

\* One pass of the outer loop, for i in range(n): the inner loop over
\* j in range(0, n - i - 1); a comparison with None ends the call.
BubblePass ==
    /\ pc = "running"
    /\ Top.i < Top.n
    /\ LET st == bubble_inner([arr |-> lists[Top.sorted_arr], exc |-> "none"],
                              1, Top.n - Top.i - 1)
       IN  /\ lists' = [lists EXCEPT ![Top.sorted_arr] = st.arr]
           /\ IF st.exc = "none"
              THEN /\ stack' = <<[Top EXCEPT !.i = @ + 1]>>
                   /\ UNCHANGED <<ret, pc>>
              ELSE /\ stack' = <<>>
                   /\ ret' = Raise(st.exc)
                   /\ pc' = "done"
    /\ UNCHANGED <<recs, pre, attrs, calls>>

\* return sorted_arr
BubbleReturn ==
    /\ pc = "running"
    /\ Top.i = Top.n
    /\ ret' = ReturnList(Top.sorted_arr)
    /\ stack' = <<>>
    /\ pc' = "done"
    /\ UNCHANGED <<recs, lists, pre, attrs, calls>>

NextBubble == BubbleCopy \/ BubblePass \/ BubbleReturn

SpecBubble == InitBubble /\ [][NextBubble]_vars

\* ---------------------------------------------- claims: bubble_sort

\* None counted as zero.
NoneAsZero(s) == [k \in DOMAIN s |-> IF IsNone(s[k]) THEN Num(0) ELSE s[k]]

\* C21: bubble_sort tolerates a missing (None) value, which it treats as
\* zero instead of raising: the call returns the list in ascending order
\* with None ranked as 0.
C21_BubbleToleratesNone ==
    pc = "done"
        => /\ ret.kind = "list"
           /\ NoneAsZero(lists[ret.id]) = RefSorted(NoneAsZero(Sample))

\* C26: on a list of numbers bubble_sort returns a new list, the input
\* in ascending order, and leaves the input list as it was; after the
\* i-th pass of the outer loop the last i positions of the working copy
\* hold the i largest values in their final ascending order.
C26_BubbleSortPasses ==
    Numeric(Sample)
        => /\ lists[Arg] = Sample
           /\ pc = "running"
                => /\ Top.sorted_arr # Arg
                   /\ SameMultiset(lists[Top.sorted_arr], Sample)
                   /\ \A k \in (Top.n - Top.i + 1)..Top.n :
                         lists[Top.sorted_arr][k] = RefSorted(Sample)[k]
           /\ pc = "done"
                => /\ ret.kind = "list"
                   /\ ret.id # Arg
                   /\ lists[ret.id] = RefSorted(Sample)

\* After the second pass over 3, 1, 2, 0 the working copy is 1, 0, 2, 3:
\* its last two positions are final, its first two are not.
C26_Witness ==
    /\ pc = "running"
    /\ Sample = <<Num(Fix(3)), Num(Fix(1)), Num(Fix(2)), Num(Fix(0))>>
    /\ Top.i = 2
    /\ lists[Top.sorted_arr] = <<Num(Fix(1)), Num(Fix(0)), Num(Fix(2)), Num(Fix(3))>>
    /\ lists[Arg] = Sample

\* ------------------------------------ app.py: /api/insights/custom

\* The length of outliers[:10].
SampleCap == 10

\* What db_handler.get_trips_for_analysis() gives: the list of trip
\* records (list a of the heap), or None when the query failed.
TripsFound(a) == [ok |-> TRUE, id |-> a]
QueryFailed == [ok |-> FALSE]

\* jsonify: a list of dicts goes into the response by value.
JsonList(R, ids) == [k \in DOMAIN ids |-> R[ids[k]]]

\* The count reported as the length of the sample.
LengthOfSample(outliers) ==
    IF Len(outliers) < SampleCap THEN Len(outliers) ELSE SampleCap

\* len(outliers)
OutliersDetected(outliers) == Len(outliers)

\* outliers[:10]
OutlierSamples(outliers) ==
    SubSeq(outliers, 1, IF Len(outliers) < SampleCap THEN Len(outliers)
                        ELSE SampleCap)

Response(status, body) == [kind |-> "response", status |-> status, body |-> body]

\* get_custom_insights(), the database having given t.  With None for
\* trips detect_fare_outliers returns [] and aggregate_by_hour raises
\* TypeError at its loop, which the handler turns into the error response.
get_custom_insights(R, L, t) ==
    IF ~t.ok
    THEN Heap(R, Append(L, <<>>), Response(500, [error |-> "TypeError"]))
    ELSE LET o == detect_fare_outliers(R, L, t.id)
             outliers == o.lists[o.ret.id]
             g == aggregate_by_hour(o.recs, o.lists, t.id)
             aggregated == g.lists[g.ret.id]
             L2 == Append(g.lists, OutlierSamples(outliers))
         IN  Heap(g.recs, L2,
                  Response(200,
                      [outliers_detected |-> OutliersDetected(outliers),
                       hourly_aggregation |-> JsonList(g.recs, aggregated),
                       outlier_samples |-> JsonList(g.recs, L2[Len(L2)])]))

MaxOutliers == 12

\* 2k + 4 trips with the fare 3, but for k of them, every second of
\* the first 2k, whose fare is 1 and 5 in turn: these k are the outliers.
ManyOutliers(k) ==
    [i \in 1..(2 * k + 4) |->
        [trip |-> Num(i), pickup_hour |-> Num(Fix(i % HoursPerDay)),
         fare_amount |->
            Num(Fix(IF i % 2 = 0 \/ i > 2 * k THEN 3
                    ELSE IF i % 4 = 1 THEN 1 ELSE 5))]]

InitInsights ==
    /\ \/ \E k \in 0..MaxOutliers : recs = ManyOutliers(k)
       \/ \E n \in 0..MaxAggTrips : recs \in AggHeaps(n)
       \/ recs = MixedTrips
    /\ lists = <<[i \in DOMAIN recs |-> i]>>
    /\ ret = NoReturn
    /\ pre = [recs |-> recs, lists |-> lists]
    /\ pc = "ready"
    /\ FreshObjects

CallInsights ==
    /\ pc = "ready"
    /\ \E t \in {TripsFound(Arg), QueryFailed} :
          Apply(get_custom_insights(recs, lists, t))

NextInsights == CallInsights

SpecInsights == InitInsights /\ [][NextInsights]_vars

\* The list detect_fare_outliers returns for the trips of the call.
DetectedOutliers ==
    LET o == detect_fare_outliers(pre.recs, pre.lists, Arg)
    IN  [k \in DOMAIN o.lists[o.ret.id] |-> o.recs[o.lists[o.ret.id][k]]]

\* C22: in the response of /api/insights/custom outliers_detected is the
\* number of records detect_fare_outliers returned, and outlier_samples
\* is the prefix of that list of length min(10, outliers_detected), in
\* the same order.
C22_CountAndCappedSample ==
    (pc = "done" /\ ret.status = 200)
        => /\ ret.body.outliers_detected = Len(DetectedOutliers)
           /\ Len(ret.body.outlier_samples)
                = (IF Len(DetectedOutliers) < 10 THEN Len(DetectedOutliers) ELSE 10)
           /\ \A k \in DOMAIN ret.body.outlier_samples :
                ret.body.outlier_samples[k] = DetectedOutliers[k]

\* Twelve outliers among 28 trips: 12 are reported, the first 10 of them
\* are the sample.
C22_Witness ==
    /\ pc = "done"
    /\ pre.recs = ManyOutliers(12)
    /\ ret.status = 200
    /\ ret.body.outliers_detected = 12
    /\ Len(ret.body.outlier_samples) = 10
    /\ ret.body.outlier_samples[10].trip = Num(19)
    /\ ret.body.outlier_samples[1].fare_amount = Num(Fix(1))
    /\ ret.body.outlier_samples[2].fare_amount = Num(Fix(5))

\* ------------------------------------------ specification: partition

ReturnIndex(p) == [kind |-> "index", val |-> p]

InitPart ==
    /\ \E n \in 1..MaxRoutes : \E R \in RouteHeaps(n) :
          /\ recs = R
          /\ lists = <<[i \in 1..n |-> i]>>
    /\ ret = NoReturn
    /\ pre = [recs |-> recs, lists |-> lists]
    /\ pc = "ready"
    /\ FreshObjects

\* partition(arr, low, high, 'trip_count') with low <= high, arr being
\* the caller's list, rearranged in place.
CallPartition ==
    /\ pc = "ready"
    /\ \E low \in DOMAIN lists[Arg] : \E high \in low..Len(lists[Arg]) :
          LET pt == partition(recs, lists[Arg], low, high, "trip_count") IN
          /\ lists' = [lists EXCEPT ![Arg] = pt.arr]
          /\ ret' = IF pt.exc # "none" THEN Raise(pt.exc) ELSE ReturnIndex(pt.p)
          /\ pre' = [recs |-> recs, lists |-> lists, low |-> low, high |-> high]
    /\ pc' = "done"
    /\ UNCHANGED <<recs, attrs, calls, stack>>

NextPart == CallPartition

SpecPart == InitPart /\ [][NextPart]_vars

\* trip_count of the record at position k of the list, after the call and
\* before it.
KeyAt(k) == Val(recs[lists[Arg][k]].trip_count)
KeyBefore(k) == Val(pre.recs[pre.lists[Arg][k]].trip_count)

\* C23: partition(arr, low, high, key) with low <= high takes the key of
\* arr[high] as pivot and returns p, low <= p <= high, with the record
\* that was at arr[high] now at arr[p], keys >= pivot at low..p-1, keys
\* < pivot at p+1..high, arr[low..high] a permutation of what it was and
\* every position outside low..high unchanged.
C23_PartitionContract ==
    (pc = "done" /\ \A k \in pre.low..pre.high : HasCount(pre.recs[pre.lists[Arg][k]]))
        => /\ ret.kind = "index"
           /\ pre.low <= ret.val /\ ret.val <= pre.high
           /\ lists[Arg][ret.val] = pre.lists[Arg][pre.high]
           /\ \A k \in pre.low..(ret.val - 1) : KeyAt(k) >= KeyBefore(pre.high)
           /\ \A k \in (ret.val + 1)..pre.high : KeyAt(k) < KeyBefore(pre.high)
           /\ {lists[Arg][k] : k \in pre.low..pre.high}
                = {pre.lists[Arg][k] : k \in pre.low..pre.high}
           /\ Len(lists[Arg]) = Len(pre.lists[Arg])
           /\ \A k \in DOMAIN lists[Arg] :
                (k < pre.low \/ k > pre.high) => lists[Arg][k] = pre.lists[Arg][k]
           /\ recs = pre.recs

\* Keys 2, 0, 1 over the whole list: the pivot 1 ends in the middle with
\* the 2 before it and the 0 after it.
C23_Witness ==
    /\ pc = "done"
    /\ Len(pre.lists[Arg]) = 3
    /\ pre.low = 1 /\ pre.high = 3
    /\ HasCount(pre.recs[1]) /\ HasCount(pre.recs[2]) /\ HasCount(pre.recs[3])
    /\ KeyBefore(1) = 2 /\ KeyBefore(2) = 0 /\ KeyBefore(3) = 1
    /\ ret = ReturnIndex(2)
    /\ lists[Arg] = <<1, 3, 2>>

\* ----------------------- specification: sort_by_trip_count, by calls

MaxQuick == 3

QuickHeaps(n) ==
    {[i \in 1..n |-> RouteDict(i, c[i])] : c \in [1..n -> -2..(MaxQuick - 1)]}

InitQuick ==
    /\ \E n \in 0..MaxQuick : \E R \in QuickHeaps(n) :
          /\ recs = R
          /\ lists = <<[i \in 1..n |-> i]>>
    /\ ret = NoReturn
    /\ pre = [recs |-> recs, lists |-> lists]
    /\ pc = "ready"
    /\ FreshObjects

\* The activation of sort_by_trip_count, the bottom of the stack.
SortFrame(id) == [fn |-> "sort_by_trip_count", routes_copy |-> id]

\* An activation of quicksort(arr, low, high, key).  `at` says where it
\* is: at the test low < high, in (or just back from) the call on the
\* left sub-range, or in (or just back from) the call on the right one.
QuickFrame(arr, low, high) ==
    [fn |-> "quicksort", arr |-> arr, low |-> low, high |-> high, pi |-> 0,
     at |-> "test"]

Pop == SubSeq(stack, 1, Len(stack) - 1)
ReplaceTop(frame) == [stack EXCEPT ![Len(stack)] = frame]

\* A left sub-range that keeps the pivot position.
LeftHighWithPivot(pi) == pi

\* self.quicksort(arr, low, pi - 1, key)
LeftHigh(pi) == pi - 1

\* self.quicksort(arr, pi + 1, high, key)
RightLow(pi) == pi + 1

\* sort_by_trip_count up to its call of quicksort: the edge case returns
\* the caller's list, else the routes are copied and quicksort is called
\* on the whole copy.
SortBegin ==
    /\ pc = "ready"
    /\ pre' = [recs |-> recs, lists |-> lists]
    /\ IF SortEdgeCase(lists[Arg])
       THEN /\ ret' = ReturnList(Arg)
            /\ pc' = "done"
            /\ UNCHANGED <<recs, lists, stack>>
       ELSE LET c == SortTarget(recs, lists, Arg) IN
            /\ recs' = c.recs
            /\ lists' = c.lists
            /\ stack' = <<SortFrame(c.id),
                          QuickFrame(c.id, 1, Len(c.lists[c.id]))>>
            /\ pc' = "running"
            /\ UNCHANGED ret
    /\ UNCHANGED <<attrs, calls>>

\* if low < high: pi = self.partition(...), then the call on low..pi-1;
\* with low >= high the activation returns at once.  An exception of
\* partition ends every activation.
QuickTest ==
    /\ pc = "running"
    /\ Top.fn = "quicksort" /\ Top.at = "test"
    /\ IF ~(Top.low < Top.high)
       THEN /\ stack' = Pop
            /\ UNCHANGED <<lists, ret, pc>>
       ELSE LET pt == partition(recs, lists[Top.arr], Top.low, Top.high,
                                "trip_count") IN
            /\ lists' = [lists EXCEPT ![Top.arr] = pt.arr]
            /\ IF pt.exc # "none"
               THEN /\ stack' = <<>>
                    /\ ret' = Raise(pt.exc)
                    /\ pc' = "done"
               ELSE /\ stack' = Append(ReplaceTop([Top EXCEPT !.pi = pt.p,
                                                              !.at = "left"]),
                                       QuickFrame(Top.arr, Top.low, LeftHigh(pt.p)))
                    /\ UNCHANGED <<ret, pc>>
    /\ UNCHANGED <<recs, pre, attrs, calls>>

\* The call on the left sub-range has returned: the call on pi+1..high.
QuickRight ==
    /\ pc = "running"
    /\ Top.fn = "quicksort" /\ Top.at = "left"
    /\ stack' = Append(ReplaceTop([Top EXCEPT !.at = "right"]),
                       QuickFrame(Top.arr, RightLow(Top.pi), Top.high))
    /\ UNCHANGED <<recs, lists, ret, pre, pc, attrs, calls>>

\* The call on the right sub-range has returned: the activation returns.
QuickReturn ==
    /\ pc = "running"
    /\ Top.fn = "quicksort" /\ Top.at = "right"
    /\ stack' = Pop
    /\ UNCHANGED <<recs, lists, ret, pre, pc, attrs, calls>>

\* return routes_copy
SortReturn ==
    /\ pc = "running"
    /\ Top.fn = "sort_by_trip_count"
    /\ ret' = ReturnList(Top.routes_copy)
    /\ stack' = <<>>
    /\ pc' = "done"
    /\ UNCHANGED <<recs, lists, pre, attrs, calls>>

NextQuick == SortBegin \/ QuickTest \/ QuickRight \/ QuickReturn \/ SortReturn

SpecQuick == InitQuick /\ [][NextQuick]_vars

\* Python runs a call to its end: a step that can be taken is taken.
SpecQuickFair == SpecQuick /\ WF_vars(NextQuick)

\* ------------------------------------------------ claims: quicksort

\* The number of elements of the range of a quicksort activation.
Size(f) == IF f.high < f.low THEN 0 ELSE f.high - f.low + 1

\* The positions of the quicksort activations that made a call.
Callers == 2..(Len(stack) - 1)

\* Every call in progress is on a range without its caller's pivot
\* position and smaller than its caller's, no call comes from a range of
\* zero or one element, and there are at most as many nested calls as
\* the list has elements.
RangesShrink ==
    /\ \A k \in Callers :
          /\ stack[k].low < stack[k].high
          /\ stack[k].low <= stack[k].pi /\ stack[k].pi <= stack[k].high
          /\ Size(stack[k + 1]) < Size(stack[k])
          /\ \/ /\ stack[k].at = "left"
                /\ stack[k + 1].low = stack[k].low
                /\ stack[k + 1].high = stack[k].pi - 1
             \/ /\ stack[k].at = "right"
                /\ stack[k + 1].low = stack[k].pi + 1
                /\ stack[k + 1].high = stack[k].high
    /\ Len(stack) - 1 <= Len(lists[Arg])

\* C24: quicksort terminates on every finite list: each recursive call
\* is on a range strictly smaller than its caller's, the pivot position
\* being in neither sub-range, a range of zero or one element makes no
\* call, and the recursion is never deeper than the list is long.
C24_QuicksortTerminates == []RangesShrink /\ <>(pc = "done")

\* Three nested activations on three routes, on ranges of 3, 2 and 1
\* elements.
C24_Witness ==
    /\ pc = "running"
    /\ Len(lists[Arg]) = 3
    /\ Len(stack) = 4
    /\ Size(stack[2]) = 3 /\ Size(stack[3]) = 2 /\ Size(stack[4]) = 1

\* The caller's routes have distinct trip_counts, in descending or in
\* ascending order, and are two at least.
SortedDistinct ==
    LET routes == lists[Arg]
        n == Len(routes)
    IN  /\ n >= 2
        /\ \A k \in 1..n : HasCount(recs[routes[k]])
        /\ \/ \A k \in 1..(n - 1) :
                Val(recs[routes[k]].trip_count) > Val(recs[routes[k + 1]].trip_count)
           \/ \A k \in 1..(n - 1) :
                Val(recs[routes[k]].trip_count) < Val(recs[routes[k + 1]].trip_count)

\* Every pivot placed so far is at an end of its range: one sub-range is
\* empty.
PivotsAtAnEnd ==
    \A k \in 2..Len(stack) :
        stack[k].at # "test"
            => /\ stack[k].pi \in {stack[k].low, stack[k].high}
               /\ \/ stack[k].pi - 1 < stack[k].low
                  \/ stack[k].pi + 1 > stack[k].high

\* The recursive calls below the first call of quicksort.
RecursionDepth == Len(stack) - 2

\* C25: on routes already sorted by trip_count (descending or ascending,
\* distinct keys) every partition step puts the pivot at an end of its
\* range, so one sub-range is always empty, and the recursion depth
\* reaches n - 1 for n routes.
C25_SortedInputWorstCase ==
    /\ [](SortedDistinct => PivotsAtAnEnd /\ RecursionDepth <= Len(lists[Arg]) - 1)
    /\ (pc = "ready" /\ SortedDistinct)
            ~> (pc = "running" /\ RecursionDepth = Len(lists[Arg]) - 1)

\* Three routes in ascending order, the recursion at depth 2: the pivots
\* went to the low end, then to the high end.
C25_Witness ==
    /\ pc = "running"
    /\ SortedDistinct
    /\ Val(recs[1].trip_count) < Val(recs[2].trip_count)
    /\ Len(lists[Arg]) = 3
    /\ RecursionDepth = 2
    /\ stack[2].pi = stack[2].low
    /\ stack[3].pi = stack[3].high


\* ------------------------- specification: DatabaseHandler.execute_query
\* database_operations.py.  Here `recs` holds the connection and cursor
\* objects the call creates and the row dicts fetchall builds, `pre` the
\* rows the query selects in the database, `calls` the calls made to the
\* MySQL connector with their outcome, and the one frame of `stack` the
\* local variables that are bound: an unbound local is a name outside the
\* DOMAIN of the frame.

MaxRows == 2

\* The rows a query selects: up to MaxRows rows of one column.
RowValues == 0..MaxRows
RowLists == UNION {[1..n -> RowValues] : n \in 0..MaxRows}

ReturnNone == [kind |-> "None"]

Connection == [kind |-> "connection", open |-> TRUE]
Cursor == [kind |-> "cursor", open |-> TRUE]
Close(obj) == [obj EXCEPT !.open = FALSE]

\* The call of a connector function and how it ended.
Called(fn, out) == Append(calls, [fn |-> fn, out |-> out])

InitQuery ==
    /\ recs = <<>>
    /\ lists = <<>>
    /\ ret = NoReturn
    /\ \E rows \in RowLists : pre = [recs |-> recs, lists |-> lists, rows |-> rows]
    /\ pc = "ready"
    /\ FreshObjects

\* conn = self.get_connection(); if not conn: return None.
\* get_connection returns the new connection, or None when connect
\* raises Error.
QueryConnect ==
    /\ pc = "ready"
    /\ \/ /\ calls' = Called("connect", "ok")
          /\ recs' = Append(recs, Connection)
          /\ stack' = <<[fn |-> "execute_query", at |-> "cursor",
                         conn |-> Len(recs) + 1]>>
          /\ pc' = "running"
          /\ UNCHANGED ret
       \/ /\ calls' = Called("connect", "Error")
          /\ ret' = ReturnNone
          /\ pc' = "done"
          /\ UNCHANGED <<recs, stack>>
    /\ UNCHANGED <<lists, pre, attrs>>

\* cursor = conn.cursor(dictionary=True): the local is bound only when
\* the call returns; an Error goes to the except clause.
QueryCursor ==
    /\ pc = "running" /\ Top.at = "cursor"
    /\ \/ /\ calls' = Called("cursor", "ok")
          /\ recs' = Append(recs, Cursor)
          /\ stack' = <<[Top EXCEPT !.at = "execute"]
                            @@ [cursor |-> Len(recs) + 1]>>
       \/ /\ calls' = Called("cursor", "Error")
          /\ stack' = <<[Top EXCEPT !.at = "except"]>>
          /\ UNCHANGED recs
    /\ UNCHANGED <<lists, ret, pre, pc, attrs>>

\* cursor.execute(query, params or ())
QueryExecute ==
    /\ pc = "running" /\ Top.at = "execute"
    /\ \/ /\ calls' = Called("execute", "ok")
          /\ stack' = <<[Top EXCEPT !.at = "fetch"]>>
       \/ /\ calls' = Called("execute", "Error")
          /\ stack' = <<[Top EXCEPT !.at = "except"]>>
    /\ UNCHANGED <<recs, lists, ret, pre, pc, attrs>>

\* results = cursor.fetchall(); return results: a new list of one new
\* dict per row.  The return is pending while the finally clause runs.
QueryFetch ==
    /\ pc = "running" /\ Top.at = "fetch"
    /\ \/ LET n == Len(pre.rows) IN
          /\ calls' = Called("fetchall", "ok")
          /\ recs' = recs \o [k \in 1..n |-> [value |-> Num(pre.rows[k])]]
          /\ lists' = Append(lists, [k \in 1..n |-> Len(recs) + k])
          /\ stack' = <<[Top EXCEPT !.at = "finally"]
                            @@ [results |-> Len(lists) + 1,
                                pending |-> ReturnList(Len(lists) + 1)]>>
       \/ /\ calls' = Called("fetchall", "Error")
          /\ stack' = <<[Top EXCEPT !.at = "except"]>>
          /\ UNCHANGED <<recs, lists>>
    /\ UNCHANGED <<ret, pre, pc, attrs>>

\* except Error as e: print(...); return None
QueryExcept ==
    /\ pc = "running" /\ Top.at = "except"
    /\ stack' = <<[Top EXCEPT !.at = "finally"] @@ [pending |-> ReturnNone]>>
    /\ UNCHANGED <<recs, lists, ret, pre, pc, attrs, calls>>

\* finally: cursor.close(); conn.close().  Reading the local `cursor`
\* while it is unbound raises UnboundLocalError, which replaces the
\* pending return and leaves conn.close() unrun.
Finally(frame) ==
    IF "cursor" \in DOMAIN frame
    THEN [recs |-> [recs EXCEPT ![frame.cursor] = Close(@),
                                ![frame.conn] = Close(@)],
          ret |-> frame.pending]
    ELSE [recs |-> recs, ret |-> Raise("UnboundLocalError")]

QueryFinally ==
    /\ pc = "running" /\ Top.at = "finally"
    /\ recs' = Finally(Top).recs
    /\ ret' = Finally(Top).ret
    /\ stack' = <<>>
    /\ pc' = "done"
    /\ UNCHANGED <<lists, pre, attrs, calls>>

NextQuery ==
    \/ QueryConnect \/ QueryCursor \/ QueryExecute
    \/ QueryFetch \/ QueryExcept \/ QueryFinally

SpecQuery == InitQuery /\ [][NextQuery]_vars

\* -------------------------------------------- claims: execute_query

\* The objects of a kind the call created.
ObjectsOf(kind) ==
    {k \in DOMAIN recs : "kind" \in DOMAIN recs[k] /\ recs[k].kind = kind}
OutcomesOf(fn) == {calls[k].out : k \in {j \in DOMAIN calls : calls[j].fn = fn}}
ErrorOccurred == \E k \in DOMAIN calls : calls[k].out = "Error"

\* C27: every connection execute_query opens is closed when the call
\* returns, on success and after a failure of cursor creation, execute
\* or fetch; after a database Error the call returns None and does not
\* raise; when the connection cannot be opened it returns None and no
\* cursor is asked for.
C27_ConnectionAlwaysClosed ==
    pc = "done"
        => /\ \A c \in ObjectsOf("connection") : ~recs[c].open
           /\ ret.kind # "raise"
           /\ ErrorOccurred => ret = ReturnNone
           /\ "Error" \in OutcomesOf("connect")
                => ret = ReturnNone /\ OutcomesOf("cursor") = {}


\* ------------------------------------ claims: outliers and quartiles

\* The caller's trips that carry a fare, and the trips returned.
FareTrips == SelectSeq(Trips, LAMBDA id : HasFare(pre.recs[id]))
Returned == lists[ret.id]

\* s holds elements of t in the order of t (t without duplicates).
IsSubList(s, t) == s = SelectSeq(t, LAMBDA id : id \in Range(s))

\* The quartiles and the bounds the call computed.
FareQuartiles == calculate_quartiles(Fares).q
FareBounds == fare_bounds(FareQuartiles)

\* With four fares or more: lower_bound <= Q1 <= Q3 <= upper_bound and
\* no returned record has its fare in [Q1, Q3].
BoundsBracket ==
    Len(Fares) >= 4
        => /\ FareBounds[1] <= Val(FareQuartiles[1])
           /\ Val(FareQuartiles[1]) <= Val(FareQuartiles[3])
           /\ Val(FareQuartiles[3]) <= FareBounds[2]
           /\ \A k \in DOMAIN Returned :
                LET fare == Val(pre.recs[Returned[k]].fare_amount) IN
                ~(Val(FareQuartiles[1]) <= fare /\ fare <= Val(FareQuartiles[3]))

\* Equal fares give no outlier.
EqualFaresNoOutlier == Cardinality(Range(Fares)) <= 1 => Returned = <<>>

\* C28: in detect_fare_outliers lower_bound <= Q1 <= Q3 <= upper_bound,
\* so no record with its fare in [Q1, Q3] is returned; when all non-null
\* fares are equal nothing is returned; and the result is always a proper
\* sub-list of the records carrying a fare.
C28_ProperSubList ==
    pc = "done"
        => /\ ret.kind = "list"
           /\ BoundsBracket
           /\ EqualFaresNoOutlier
           /\ IsSubList(Returned, FareTrips)
           /\ Returned # FareTrips

\* C28, amended: as above, the result being a sub-list of the records
\* carrying a fare in every case and a proper one whenever a record
\* carries a fare; with no such record (the empty list included) both
\* are empty.
C28_SubListProperIfAnyFare ==
    pc = "done"
        => /\ ret.kind = "list"
           /\ BoundsBracket
           /\ EqualFaresNoOutlier
           /\ IsSubList(Returned, FareTrips)
           /\ FareTrips # <<>> => Returned # FareTrips
           /\ FareTrips = <<>> => Returned = <<>>

\* Six trips, one without a fare: the fares 0, 1, 0, 0, 1 have Q1 = 0
\* and Q3 = 1, bounds -1.5 and 2.5, and nothing is returned.
C28_Witness ==
    /\ pc = "done"
    /\ Len(Trips) = 6
    /\ Len(Fares) = 5
    /\ Val(FareQuartiles[1]) = Fix(0) /\ Val(FareQuartiles[3]) = Fix(1)
    /\ FareBounds[1] < Val(FareQuartiles[1])
    /\ FareBounds[2] > Val(FareQuartiles[3])
    /\ Returned = <<>>


\* ----------------------------------------- claims: slowest hour kept

\* The positions of the qualifying entries whose speed is the slowest.
Slowest == {i \in Qualifying : 10 * Val(Entries[i].avg_speed) = TenTimesSlowest}

\* C29: whenever an entry has trip_count > 10 the result of
\* find_congestion_hours is not empty and holds the hour of every entry
\* whose avg_speed is the minimum over the entries with trip_count > 10,
\* for every value of avg_speed, zero and negative values included.
C29_SlowestHourReturned ==
    (/\ pc = "done"
     /\ \A i \in DOMAIN Entries : WellFormed(Entries[i])
     /\ Qualifying # {})
        => /\ ret.kind = "list"
           /\ CongestionHours # <<>>
           /\ \A i \in Slowest : Entries[i].hour \in Range(CongestionHours)


\* ----------------------- specification: one call of any of the five
\* detect_fare_outliers, aggregate_by_hour and find_congestion_hours on
\* a list of records, calculate_quartiles and bubble_sort on a list of
\* numbers.

MaxFrame == 4

\* Records that are trips and hour entries at once: complete ones, one
\* with None fields, one with fields missing, one with trip_count None
\* and one with an hour out of range and a negative speed.
FrameRecords ==
    <<[trip_count |-> Num(11), fare_amount |-> Num(Fix(0)),
       pickup_hour |-> Num(Fix(5)), hour |-> Num(7),
       avg_speed |-> Num(Speed(10))],
      [trip_count |-> Num(12), fare_amount |-> Num(Fix(5)),
       pickup_hour |-> Num(Fix(5)), hour |-> Num(8),
       avg_speed |-> Num(Speed(11)), trip_distance |-> Num(Fix(2))],
      [trip_count |-> Num(11), fare_amount |-> None, pickup_hour |-> None,
       hour |-> Num(9), avg_speed |-> Num(Speed(12))],
      [hour |-> Num(10), avg_speed |-> Num(Speed(0))],
      [trip_count |-> None, fare_amount |-> Num(Fix(0)),
       pickup_hour |-> Num(Fix(23)), hour |-> Num(11),
       avg_speed |-> Num(Speed(10))],
      [trip_count |-> Num(500), fare_amount |-> Num(Fix(0)),
       pickup_hour |-> Num(Fix(24)), avg_speed |-> Num(Speed(-10))]>>

\* The caller passes up to MaxFrame of these records, the six records of
\* the session (one fare outlier among them), or up to MaxFrame numbers.
InitFrame ==
    /\ \/ \E n \in 0..MaxFrame : \E t \in [1..n -> DOMAIN FrameRecords] :
             /\ recs = [i \in 1..n |-> FrameRecords[t[i]]]
             /\ lists = <<[i \in 1..n |-> i]>>
       \/ /\ recs = SessionRecords
          /\ lists = <<[i \in DOMAIN recs |-> i]>>
       \/ /\ recs = <<>>
          /\ \E n \in 0..MaxFrame : \E s \in [1..n -> SampleValues] : lists = <<s>>
    /\ ret = NoReturn
    /\ pre = [recs |-> recs, lists |-> lists]
    /\ pc = "ready"
    /\ FreshObjects

\* The caller's list is a list of records, or a list of numbers (the
\* empty list is both).
RecordsGiven == recs # <<>> \/ lists[Arg] = <<>>
NumbersGiven == recs = <<>>

NextFrame ==
    \/ RecordsGiven /\ CallOutliers
    \/ RecordsGiven /\ CallAggregate
    \/ RecordsGiven /\ CallCongestion
    \/ NumbersGiven /\ CallQuartiles
    \/ NumbersGiven /\ (BubbleCopy \/ BubblePass \/ BubbleReturn)

SpecFrame == InitFrame /\ [][NextFrame]_vars

\* ------------------------------------------- claims: input unchanged

\* C30: detect_fare_outliers, aggregate_by_hour, find_congestion_hours,
\* calculate_quartiles and bubble_sort leave their input unchanged:
\* during and after the call the caller's list has the same elements in
\* the same order and every record the same fields and values as before.
C30_InputUnchanged ==
    pc # "ready"
        => /\ lists[Arg] = pre.lists[Arg]
           /\ \A id \in DOMAIN pre.recs :
                id \in DOMAIN recs /\ recs[id] = pre.recs[id]

\* bubble_sort returned a sorted list that differs from the caller's
\* unsorted list of four numbers.
C30_Witness ==
    /\ pc = "done"
    /\ recs = <<>>
    /\ Len(pre.lists[Arg]) = 4
    /\ ret.kind = "list"
    /\ lists[ret.id] # lists[Arg]
    /\ lists[Arg] = pre.lists[Arg]

=============================================================================
